---- MODULE Spec2Model ----
(***************************************************************************)
(* Verification model of the multi-agent data wrangler: the orchestrator's *)
(* pipeline run (src/orchestrator/pipeline_manager.py), the transformation *)
(* dependency graph (src/transformation/dag.py), the transformation        *)
(* executor (src/transformation/executor.py), the failure recovery         *)
(* helpers (src/orchestrator/failure_recovery.py), the ranking service     *)
(* (src/ranking/ranker.py) and the validation service                      *)
(* (src/validation/validator.py).                                          *)
(*                                                                         *)
(* One specification per component shares the module: Spec (one pipeline   *)
(* run), SpecMgr (a PipelineManager: the run, and the recover calls made   *)
(* before and after it), SpecDag (a TransformationDAG under add/sort       *)
(* calls), SpecExec and SpecSeq (an executor under execute and             *)
(* execute_sequence calls), SpecRev (execute and reverse calls), SpecCb (a *)
(* CircuitBreaker), SpecRetry (a with_retry wrapper), SpecFr (a            *)
(* FailureRecovery under handle_failure and clear_history calls), SpecRank *)
(* (RankingService.rank), SpecVal (ValidationService.validate), SpecRow    *)
(* (IntegrityValidator.validate_row_count), SpecSch (SchemaValidator),     *)
(* SpecCmp (Comparator.compare in the candidate assembly), SpecSm (a       *)
(* StateManager under save, load, set and clear calls), SpecGen            *)
(* (CandidateGenerator calls on one profile) and SpecBld (a                *)
(* TransformationDAGBuilder).  Each leaves the variables of the other      *)
(* components in their initial state.                                      *)
(***************************************************************************)
EXTENDS Integers, Sequences, FiniteSets, TLC

VARIABLES
    \* ---- PipelineManager.run ----
    pc,               \* position inside run
    enable_ranking,   \* config.enable_ranking
    state,            \* the PipelineState object of the run
    generated,        \* transformations returned by the step-2 generation call
    transformations,  \* transformations returned by the step-3 generation call
    idx,              \* loop position in step 3 (1-based, next to process)
    candidates,       \* the local list `candidates` of step 3
    outcomes,         \* what the collaborators did for each transformation
    nextId,           \* source of fresh transformation ids (uuid4)
    ckptLog,          \* every save_state call: the document and whether it was written
    stepStates,       \* the state as it was when each step finished
    current_state,    \* the object PipelineManager._current_state refers to (<<>> is None)
    exc,              \* message of the exception caught at the top level
    reexec,           \* the final re-execution of the best transformation
    result,           \* the PipelineResult returned (<<>> before return)
    state_files,      \* state_manager's state_dir: per name, the content of <name>_state.json (<<>> is no file)
    recover_result,   \* how the last recover call ended: the exception that escaped or the PipelineResult returned (<<>> before any)
    \* ---- TransformationDAG ----
    nodes,            \* keys of _nodes, in insertion order
    dependencies,     \* _dependencies: id -> set of ids
    execution_order,  \* _execution_order (the cache)
    dagResult,        \* outcome of the last topological_sort since the last mutation
    mutated,          \* the graph was mutated after the last topological_sort
    \* ---- TransformationExecutor ----
    xpc,              \* "idle", "seq" (inside execute_sequence) or "seqdone"
    instances,        \* _transformation_instances: id -> applier instance
    exResult,         \* result of the last execute call (<<>> before any)
    exCall,           \* arguments of the last execute call
    seqInput,         \* execute_sequence: the transformations argument
    seqData,          \* execute_sequence: the data argument
    seqCurrent,       \* execute_sequence: current_data
    seqResults,       \* execute_sequence: results
    seqCalls,         \* execute_sequence: the execute calls made, in order
    revCall,          \* arguments of the last reverse call since the last execute
    revResult,        \* outcome of that reverse call (<<>> when there is none)
    lastFit,          \* history: per id, the applier the last successful execute made
    \* ---- CircuitBreaker ----
    failure_threshold, \* CircuitBreaker.failure_threshold
    recovery_timeout, \* CircuitBreaker.recovery_timeout
    failure_count,    \* CircuitBreaker.failure_count
    last_failure_time, \* CircuitBreaker.last_failure_time (<<>> is None)
    is_open,          \* CircuitBreaker.is_open
    now,              \* time.time()
    cbLast,           \* the last call: the breaker before it and what came of it
    streak,           \* history: failed invocations since the last successful one
    \* ---- with_retry ----
    retry_config,     \* RetryConfig: max_retries, initial_delay, backoff_factor, max_delay
    rpc,              \* position inside the wrapper: "loop", "sleep" (inside time.sleep) or "done"
    attempt,          \* the loop variable of the wrapper
    current_delay,    \* the wrapper's current_delay
    last_exception,   \* the wrapper's last_exception (<<>> is None)
    invocations,      \* what each invocation of the wrapped function did, in order
    sleeps,           \* the time.sleep calls made, in order
    retResult,        \* how the wrapper ended (<<>> while it runs)
    \* ---- FailureRecovery ----
    strategy,         \* FailureRecovery.strategy
    recovery_history, \* FailureRecovery._recovery_history
    frState,          \* the PipelineState object given to handle_failure
    frCall,           \* arguments of the last handle_failure call (<<>> before any)
    frResult,         \* the tuple the last handle_failure call returned
    \* ---- RankingService ----
    rankCall,         \* a rank call: whether a policy is set, and the candidates
    rankResult,       \* what the call returned or raised (<<>> before it is made)
    \* ---- ValidationService ----
    valCall,          \* a validate call: the issues each of the three checks finds
    valResult,        \* the ValidationResult returned (<<>> before the call)
    \* ---- IntegrityValidator.validate_row_count ----
    rowCall,          \* a validate_row_count call: the two row counts and the tolerance
    rowResult,        \* the issue it returned (<<>> is None)
    \* ---- SchemaValidator.validate_schema_compatibility ----
    schCall,          \* a call: the columns of both datasets, the profile, the dtype findings
    schResult,        \* the (is_compatible, issues) tuple returned (<<>> before the call)
    \* ---- candidate assembly (scoring and comparison in step 3) ----
    assembled,        \* the TransformationCandidate one iteration built (<<>> before it)
    \* ---- StateManager ----
    disk,             \* state_dir: per name, the content of <name>_state.json (<<>> is no file)
    smCurrent,        \* StateManager._current_state (<<>> is None)
    smCall,           \* the last call: save, load, clear or set, its name and the exception it raised
    smResult,         \* what the last load_state returned (<<>> is None, or nothing returned)
    lastSaved,        \* history: per name, the state of the last save_state call that returned since the last clear
    \* ---- CandidateGenerator ----
    genProfile,       \* the DataProfile given to generate_candidates
    genCalls,         \* the lists the generate_candidates calls returned, in order
    genNextId,        \* the next value uuid.uuid4() returns
    \* ---- TransformationDAGBuilder ----
    bldInput,         \* the list of transformations given to the builder
    bldPc             \* position in add_transformations, auto_build_dependencies, build, sort

runVars == <<pc, enable_ranking, state, generated, transformations, idx,
             candidates, outcomes, nextId, ckptLog, stepStates,
             current_state, exc, reexec, result, state_files,
             recover_result>>
dagVars == <<nodes, dependencies, execution_order, dagResult, mutated>>
execVars == <<xpc, instances, exResult, exCall, seqInput, seqData,
              seqCurrent, seqResults, seqCalls>>
revVars == <<revCall, revResult, lastFit>>
cbVars == <<failure_threshold, recovery_timeout, failure_count,
            last_failure_time, is_open, now, cbLast, streak>>
retryVars == <<retry_config, rpc, attempt, current_delay, last_exception,
               invocations, sleeps, retResult>>
frVars == <<strategy, recovery_history, frState, frCall, frResult>>
rankVars == <<rankCall, rankResult>>
valVars == <<valCall, valResult>>
rowVars == <<rowCall, rowResult>>
schVars == <<schCall, schResult>>
cmpVars == <<assembled>>
smVars == <<disk, smCurrent, smCall, smResult, lastSaved>>
genVars == <<genProfile, genCalls, genNextId>>
bldVars == <<bldInput, bldPc>>
auxVars == <<revVars, cbVars, retryVars, frVars, rankVars, valVars, rowVars, schVars, cmpVars, smVars, genVars, bldVars>>
vars == <<runVars, dagVars, execVars, auxVars>>

-----------------------------------------------------------------------------
(* Bounds *)

MaxGen == 2      \* most transformations one generation call returns
MaxData == 1     \* datasets are 0..MaxData
MaxQ == 1        \* overall quality scores are 0..MaxQ
MaxNodes == 3    \* transformation ids usable in the DAG
MaxEdges == 3    \* dependency edges in the DAG
MaxTid == 1      \* transformation ids usable with the executor
MaxSeq == 2      \* longest list given to execute_sequence

MaxThreshold == 2 \* failure_threshold is 1..MaxThreshold
MaxTimeout == 2  \* recovery_timeout is 0..MaxTimeout
MaxTime == 4     \* the clock runs from 1 to MaxTime
MaxStreak == 4   \* most failed invocations in a row

MaxRetries == 2   \* max_retries is 0..MaxRetries
MaxDelay == 2     \* initial_delay is 1..MaxDelay
MaxBackoff == 2   \* backoff_factor is 1..MaxBackoff
MaxMaxDelay == 2  \* max_delay is 1..MaxMaxDelay

MaxHistory == 2   \* handle_failure calls on one FailureRecovery

MaxRankIds == 2   \* transformation ids among the candidates given to rank
MaxRankLen == 3   \* longest candidate list given to rank

MaxRows == 4          \* rows of a dataset given to the row-count check
MaxTolDen == 4        \* tolerances are the fractions num/den, 0 <= num <= den <= MaxTolDen

MaxCols == 3          \* column names of the datasets given to the schema check

MaxMetric == 1        \* each quality metric is one of 0..MaxMetric

MaxSmItems == 1       \* candidates in a state given to the state manager

MaxGenCols == 2       \* columns of a profile given to the generator
MaxDup == 1           \* duplicate_rows of such a profile
MaxGenCalls == 2      \* generate_candidates calls on one profile

MaxBld == 2           \* transformations in a list given to the builder
MaxBldCols == 2       \* column names their target_columns draw on
MaxTargets == 2       \* length of a target_columns list

-----------------------------------------------------------------------------
(* Shared helpers *)

Last(s) == s[Len(s)]

Range(s) == {s[i] : i \in 1..Len(s)}

SeqsUpTo(S, n) == UNION {[1..k -> S] : k \in 0..n}

Datasets == 0..MaxData
InputData == 0
NoData == -1
NoProfile == -1
NoError == "none"

-----------------------------------------------------------------------------
(* PipelineState and PipelineStep *)

PROFILING == "profiling"
GENERATION == "generation"
VALIDATION == "validation"
RANKING == "ranking"
EXECUTION == "execution"
SCORING == "scoring"

\* list(PipelineStep): the members in definition order
PipelineSteps == <<PROFILING, GENERATION, VALIDATION, EXECUTION, SCORING, RANKING>>

InitialState ==
    [current_step |-> PROFILING,
     completed_steps |-> <<>>,
     data_profile |-> NoProfile,
     candidates |-> <<>>,
     ranked_transformations |-> <<>>,
     error |-> NoError]


\* PipelineState as the checkpoint document stores it.
Snapshot(s) ==
    [current_step |-> s.current_step,
     completed_steps |-> s.completed_steps,
     data_profile |-> s.data_profile,
     candidates |-> s.candidates,
     ranked_transformations |-> s.ranked_transformations,
     error |-> s.error]

-----------------------------------------------------------------------------
(* The state files of a StateManager (src/orchestrator/state_manager.py) *)

\* names of state files
SmNames == {"default", "checkpoint"}

\* float('inf') and float('nan') in a float field of a pydantic model, and
\* the JSON null model_dump_json writes for either
Inf == 1000001
NaN == 1000002
Null == 1000003

\* a DataProfile with a column statistic (Optional[float]) that is inf, and
\* the profile that has None there and is equal to it otherwise
InfStatProfile == 1000004
NoneStatProfile == 1000005

\* a DataProfile whose overall_missing_percentage (float) is NaN, and the
\* JSON text model_dump_json writes for it, with null in that field
NaNPercentProfile == 1000006
NullPercentText == 1000007

\* a float as model_dump_json writes it
JsonFloat(x) == IF x = Inf \/ x = NaN THEN Null ELSE x

\* model_dump_json of a pydantic model of the class: a JSON text that
\* holds the model's fields, with null for a float that is inf or NaN
DumpJson(class, model) ==
    CASE class = "DataProfile" ->
           [json |-> IF model = InfStatProfile THEN NoneStatProfile
                     ELSE IF model = NaNPercentProfile THEN NullPercentText
                     ELSE model]
      [] class = "TransformationCandidate" ->
           [json |-> [model EXCEPT !.composite_delta = JsonFloat(@)]]
      [] class = "RankedTransformation" ->
           [json |-> [model EXCEPT
                        !.composite_score = JsonFloat(@),
                        !.candidate = [@ EXCEPT !.composite_delta = JsonFloat(@)]]]

\* model_validate_json of the class: the model the text describes; a null
\* in a field declared float is a ValidationError (ok is then FALSE), a
\* null in an Optional[float] field is None
ValidateJson(class, text) ==
    CASE class = "DataProfile" ->
           [ok |-> text.json # NullPercentText, model |-> text.json]
      [] class = "TransformationCandidate" ->
           [ok |-> text.json.composite_delta # Null, model |-> text.json]
      [] class = "RankedTransformation" ->
           [ok |-> /\ text.json.composite_score # Null
                   /\ text.json.candidate.composite_delta # Null,
            model |-> text.json]

\* the state_dict save_state writes (saved_at, which load_state never
\* reads, is left out); null is <<>>
StateDict(st) ==
    [current_step |-> st.current_step,
     completed_steps |-> [i \in 1..Len(st.completed_steps) |-> st.completed_steps[i]],
     data_profile |-> IF st.data_profile # NoProfile
                      THEN <<DumpJson("DataProfile", st.data_profile)>> ELSE <<>>,
     candidates |-> [i \in 1..Len(st.candidates) |->
                        DumpJson("TransformationCandidate", st.candidates[i])],
     ranked_transformations |->
        [i \in 1..Len(st.ranked_transformations) |->
            DumpJson("RankedTransformation", st.ranked_transformations[i])],
     error |-> IF st.error # NoError THEN <<st.error>> ELSE <<>>]

\* the PipelineState load_state reconstructs from a state_dict; ok is FALSE
\* when one of the model_validate_json calls raises
StateOfDict(d) ==
    LET cands == [i \in 1..Len(d.candidates) |->
                    ValidateJson("TransformationCandidate", d.candidates[i])]
        ranked == [i \in 1..Len(d.ranked_transformations) |->
                    ValidateJson("RankedTransformation", d.ranked_transformations[i])]
        profile == IF d.data_profile # <<>>
                   THEN ValidateJson("DataProfile", d.data_profile[1])
                   ELSE [ok |-> TRUE, model |-> NoProfile]
    IN  [ok |-> /\ profile.ok
                /\ \A i \in 1..Len(cands) : cands[i].ok
                /\ \A i \in 1..Len(ranked) : ranked[i].ok,
         state |->
           [current_step |-> d.current_step,
            completed_steps |-> [i \in 1..Len(d.completed_steps) |-> d.completed_steps[i]],
            data_profile |-> profile.model,
            candidates |-> [i \in 1..Len(cands) |-> cands[i].model],
            ranked_transformations |-> [i \in 1..Len(ranked) |-> ranked[i].model],
            error |-> IF d.error # <<>> THEN d.error[1] ELSE NoError]]

\* the content of a state file: the text of one JSON document, or a text
\* that is no document (the file open(..., "w") emptied, or a part of the
\* document, when the write failed)
JsonFile(d) == <<d>>
BrokenFile == <<>>

\* what becomes of the file when save_state runs: the document is written;
\* the call raises before the file is opened or in opening it; the call
\* raises after open(..., "w") emptied the file
WriteOutcomes == {"written", "refused", "truncated"}

\* save_state(state, name): the files afterwards
SaveStateOp(files, st, name, wo) ==
    IF wo = "written" THEN [files EXCEPT ![name] = <<JsonFile(StateDict(st))>>]
    ELSE IF wo = "truncated" THEN [files EXCEPT ![name] = <<BrokenFile>>]
    ELSE files

\* load_state(name): the exception it raises, if any, and the state it
\* returns (<<>> is None, when the file does not exist)
LoadStateOp(files, name) ==
    IF files[name] = <<>> THEN [error |-> NoError, state |-> <<>>]
    ELSE IF Len(files[name][1]) = 0
    THEN [error |-> "JSONDecodeError", state |-> <<>>]
    ELSE LET r == StateOfDict(files[name][1][1])
         IN  IF r.ok THEN [error |-> NoError, state |-> <<r.state>>]
             ELSE [error |-> "ValidationError", state |-> <<>>]

-----------------------------------------------------------------------------
(* Collaborators of the run.  A DataProfile is represented by the number   *)
(* of transformations the generation rules derive from it; a               *)
(* transformation by its uuid and its position in the generated list.      *)

Profiles == 0..MaxGen

\* TransformationAgent.execute: the same descriptors for the same profile,
\* each call drawing fresh uuid4 ids.
EngineGenerate(profile, firstId) ==
    [i \in 1..profile |-> [id |-> firstId + i - 1, desc |-> i]]

Scores == 0..MaxQ

\* What execute / validate / score do for one transformation of step 3.
StepOutcomes ==
    {[exec |-> e, val |-> "skipped", score |-> "skipped", qb |-> 0, qa |-> 0] :
        e \in {"fail", "raise"}}
    \cup
    {[exec |-> "ok", val |-> v, score |-> "skipped", qb |-> 0, qa |-> 0] :
        v \in {"failed", "raise"}}
    \cup
    {[exec |-> "ok", val |-> "passed", score |-> "raise", qb |-> 0, qa |-> 0]}
    \cup
    {[exec |-> "ok", val |-> "passed", score |-> "ok", qb |-> b, qa |-> a] :
        b \in Scores, a \in Scores}

MakeCandidate(t, o) ==
    [transformation |-> t,
     passed |-> (o.val = "passed"),
     quality_before |-> o.qb,
     quality_after |-> o.qa,
     composite_delta |-> o.qa - o.qb]

\* Variant: an exception of execute/validate/score leaves the loop.
ProcessTransformationNoCatch(t, o) ==
    IF o.exec = "raise" \/ o.val = "raise" \/ o.score = "raise"
    THEN [kind |-> "raise", candidate |-> MakeCandidate(t, o)]
    ELSE IF o.exec = "fail" \/ o.val = "failed"
    THEN [kind |-> "continue", candidate |-> MakeCandidate(t, o)]
    ELSE [kind |-> "append", candidate |-> MakeCandidate(t, o)]

\* Variant: a failed validation does not skip the candidate.
ProcessTransformationKeepFailed(t, o) ==
    IF o.exec = "raise" \/ o.exec = "fail" \/ o.val = "raise"
    THEN [kind |-> "continue", candidate |-> MakeCandidate(t, o)]
    ELSE IF o.val = "passed" /\ o.score = "raise"
    THEN [kind |-> "continue", candidate |-> MakeCandidate(t, o)]
    ELSE [kind |-> "append", candidate |-> MakeCandidate(t, o)]

\* One iteration of the loop of _execute_validation_and_scoring.
ProcessTransformation(t, o) ==
    IF o.exec = "raise"
    THEN [kind |-> "continue", candidate |-> MakeCandidate(t, o)]
    ELSE IF o.exec = "fail"
    THEN [kind |-> "continue", candidate |-> MakeCandidate(t, o)]
    ELSE IF o.val = "raise"
    THEN [kind |-> "continue", candidate |-> MakeCandidate(t, o)]
    ELSE IF o.val = "failed"
    THEN [kind |-> "continue", candidate |-> MakeCandidate(t, o)]
    ELSE IF o.score = "raise"
    THEN [kind |-> "continue", candidate |-> MakeCandidate(t, o)]
    ELSE [kind |-> "append", candidate |-> MakeCandidate(t, o)]

\* ImprovementPolicy("overall").score
PolicyScore(c) == c.composite_delta

\* Variant: the sort puts an element before the elements of equal score.
RECURSIVE InsertDescUnstable(_, _)
InsertDescUnstable(sorted, x) ==
    IF sorted = <<>> THEN <<x>>
    ELSE IF sorted[1][2] > x[2]
         THEN <<sorted[1]>> \o InsertDescUnstable(Tail(sorted), x)
         ELSE <<x>> \o sorted

\* list.sort(key=score, reverse=True) is stable: an element goes after
\* every element whose score is at least its own.
RECURSIVE InsertDesc(_, _)
InsertDesc(sorted, x) ==
    IF sorted = <<>> THEN <<x>>
    ELSE IF sorted[1][2] >= x[2]
         THEN <<sorted[1]>> \o InsertDesc(Tail(sorted), x)
         ELSE <<x>> \o sorted

RECURSIVE SortDesc(_)
SortDesc(scored) ==
    IF scored = <<>> THEN <<>>
    ELSE InsertDesc(SortDesc(SubSeq(scored, 1, Len(scored) - 1)), Last(scored))

\* RankingService.rank
Rank(cands) ==
    LET scored == [i \in 1..Len(cands) |-> <<cands[i], PolicyScore(cands[i])>>]
        sorted == SortDesc(scored)
    IN [i \in 1..Len(sorted) |->
            [rank |-> i, candidate |-> sorted[i][1], composite_score |-> sorted[i][2]]]

-----------------------------------------------------------------------------
(* Control flow of PipelineManager.run *)

\* Variant: no checkpoint after candidate generation.
AfterStepNoCkpt2(p) ==
    CASE p = "step1" -> "ckpt1"
      [] p = "step2" -> "step3"
      [] p = "step3" -> "ckpt3"
      [] p = "step4" -> "ckpt4"

\* Each step is followed by its checkpoint.
AfterStep(p) ==
    CASE p = "step1" -> "ckpt1"
      [] p = "step2" -> "ckpt2"
      [] p = "step3" -> "ckpt3"
      [] p = "step4" -> "ckpt4"

AfterCheckpoint(p, ranking) ==
    CASE p = "ckpt1" -> "step2"
      [] p = "ckpt2" -> "step3"
      [] p = "ckpt3" -> IF ranking THEN "step4" ELSE "final"
      [] p = "ckpt4" -> "final"
      [] p = "ckpt_except" -> "return_fail"

CkptPcs == {"ckpt1", "ckpt2", "ckpt3", "ckpt4", "ckpt_except"}

\* Variant: _save_checkpoint without its try/except.
SaveCheckpointOutcomeNoCatch(writeOk) ==
    IF writeOk THEN "saved" ELSE "raised"

\* _save_checkpoint: a failing save_state is logged and swallowed.
SaveCheckpointOutcome(writeOk) ==
    IF writeOk THEN "saved" ELSE "swallowed"


-----------------------------------------------------------------------------
(* PipelineManager.run, one action per step *)

NoReexec == [done |-> FALSE, tid |-> 0, success |-> FALSE, output |-> NoData]

\* the state_name argument of run (its default)
StateName == "default"

NoFiles == [n \in SmNames |-> <<>>]

\* the last checkpoint of an earlier run, which found nothing to transform
\* and did not rank
EarlierRunState ==
    [current_step |-> RANKING,
     completed_steps |-> <<PROFILING, GENERATION, VALIDATION>>,
     data_profile |-> 0,
     candidates |-> <<>>,
     ranked_transformations |-> <<>>,
     error |-> NoError]

\* the state directory the manager is constructed on: empty, or holding
\* the file an earlier run left under the same name
InitialStateFiles ==
    {NoFiles, SaveStateOp(NoFiles, EarlierRunState, StateName, "written")}

\* _current_state is a reference (line 259): once a checkpoint of this run
\* was saved it is the PipelineState object of the run, which the steps and
\* the handler change in place
Aliased == \E i \in DOMAIN ckptLog : ckptLog[i].written

\* _current_state after the run's state object became s
CurrentStateWhen(s) == IF Aliased THEN <<s>> ELSE current_state

InitRun ==
    /\ pc = "step1"
    /\ enable_ranking \in BOOLEAN
    /\ state = InitialState
    /\ generated = <<>>
    /\ transformations = <<>>
    /\ idx = 1
    /\ candidates = <<>>
    /\ outcomes = <<>>
    /\ nextId = 1
    /\ ckptLog = <<>>
    /\ stepStates = <<>>
    /\ current_state = <<>>
    /\ exc = NoError
    /\ reexec = NoReexec
    /\ result = <<>>
    /\ state_files \in InitialStateFiles
    /\ recover_result = <<>>

\* An exception raised inside the try block of run reaches its handler.
RaiseInRun(msg) ==
    /\ pc' = "except"
    /\ exc' = msg

\* Step 1: _execute_profiling
ExecuteProfiling ==
    /\ pc = "step1"
    /\ \/ /\ RaiseInRun("profiler failed")
          /\ UNCHANGED <<state, stepStates>>
       \/ \E p \in Profiles :
            LET s == [state EXCEPT !.data_profile = p,
                                   !.current_step = GENERATION,
                                   !.completed_steps = Append(@, PROFILING)]
            IN /\ state' = s
               /\ stepStates' = Append(stepStates, s)
               /\ pc' = AfterStep("step1")
               /\ exc' = exc
    /\ current_state' = CurrentStateWhen(state')
    /\ UNCHANGED <<enable_ranking, generated, transformations, idx, candidates,
                   outcomes, nextId, ckptLog, reexec, result, state_files,
                   recover_result>>

\* _save_checkpoint, at each of its five call sites in run
SaveCheckpoint ==
    /\ pc \in CkptPcs
    /\ \E wo \in WriteOutcomes :
         LET writeOk == (wo = "written")
             o == SaveCheckpointOutcome(writeOk)
         IN
         /\ ckptLog' = Append(ckptLog, [doc |-> Snapshot(state), written |-> writeOk])
         /\ state_files' = SaveStateOp(state_files, state, StateName, wo)
         /\ current_state' = IF o = "saved" THEN <<state>> ELSE current_state
         /\ IF o = "raised"
            THEN IF pc = "ckpt_except"
                 THEN pc' = "escaped" /\ exc' = exc
                 ELSE RaiseInRun("checkpoint failed")
            ELSE pc' = AfterCheckpoint(pc, enable_ranking) /\ exc' = exc
    /\ UNCHANGED <<enable_ranking, state, generated, transformations, idx,
                   candidates, outcomes, nextId, stepStates, reexec, result,
                   recover_result>>

\* Step 2: _execute_candidate_generation
ExecuteCandidateGeneration ==
    /\ pc = "step2"
    /\ IF state.data_profile = NoProfile
       THEN /\ RaiseInRun("Data profile is required for candidate generation")
            /\ UNCHANGED <<state, stepStates, generated, nextId>>
       ELSE \/ /\ RaiseInRun("generator failed")
               /\ UNCHANGED <<state, stepStates, generated, nextId>>
            \/ LET ts == EngineGenerate(state.data_profile, nextId)
                   s == [state EXCEPT !.current_step = VALIDATION,
                                      !.completed_steps = Append(@, GENERATION)]
               IN /\ generated' = ts
                  /\ nextId' = nextId + Len(ts)
                  /\ state' = s
                  /\ stepStates' = Append(stepStates, s)
                  /\ pc' = AfterStep("step2")
                  /\ exc' = exc
    /\ current_state' = CurrentStateWhen(state')
    /\ UNCHANGED <<enable_ranking, transformations, idx, candidates, outcomes,
                   ckptLog, reexec, result, state_files, recover_result>>

\* Step 3, before the loop: the transformations are generated again
Step3Setup ==
    /\ pc = "step3"
    /\ IF state.data_profile = NoProfile
       THEN /\ RaiseInRun("Data profile is required for validation")
            /\ UNCHANGED <<transformations, nextId, candidates, idx>>
       ELSE \/ /\ RaiseInRun("generator failed")
               /\ UNCHANGED <<transformations, nextId, candidates, idx>>
            \/ LET ts == EngineGenerate(state.data_profile, nextId)
               IN /\ transformations' = ts
                  /\ nextId' = nextId + Len(ts)
                  /\ candidates' = <<>>
                  /\ idx' = 1
                  /\ pc' = "loop"
                  /\ exc' = exc
    /\ UNCHANGED <<enable_ranking, state, generated, outcomes, ckptLog,
                   stepStates, current_state, reexec, result, state_files,
                   recover_result>>

\* Step 3, one iteration of the loop over the transformations
Step3Process ==
    /\ pc = "loop"
    /\ idx <= Len(transformations)
    /\ \E o \in StepOutcomes :
         LET r == ProcessTransformation(transformations[idx], o) IN
         /\ outcomes' = Append(outcomes, o)
         /\ IF r.kind = "raise"
            THEN /\ RaiseInRun("candidate failed")
                 /\ UNCHANGED <<candidates, idx>>
            ELSE /\ candidates' = IF r.kind = "append"
                                  THEN Append(candidates, r.candidate)
                                  ELSE candidates
                 /\ idx' = idx + 1
                 /\ UNCHANGED <<pc, exc>>
    /\ UNCHANGED <<enable_ranking, state, generated, transformations, nextId,
                   ckptLog, stepStates, current_state, reexec, result,
                   state_files, recover_result>>

\* Step 3, after the loop
Step3Finish ==
    /\ pc = "loop"
    /\ idx > Len(transformations)
    /\ LET s == [state EXCEPT !.candidates = candidates,
                              !.current_step = RANKING,
                              !.completed_steps = Append(@, VALIDATION)]
       IN /\ state' = s
          /\ stepStates' = Append(stepStates, s)
    /\ current_state' = CurrentStateWhen(state')
    /\ pc' = AfterStep("step3")
    /\ UNCHANGED <<enable_ranking, generated, transformations, idx, candidates,
                   outcomes, nextId, ckptLog, exc, reexec, result, state_files,
                   recover_result>>

\* Step 4: _execute_ranking
ExecuteRanking ==
    /\ pc = "step4"
    /\ IF state.candidates = <<>>
       THEN LET s == [state EXCEPT !.ranked_transformations = <<>>]
            IN /\ state' = s
               /\ stepStates' = Append(stepStates, s)
               /\ pc' = AfterStep("step4")
               /\ exc' = exc
       ELSE \/ /\ RaiseInRun("ranker failed")
               /\ UNCHANGED <<state, stepStates>>
            \/ LET s == [state EXCEPT
                           !.ranked_transformations = Rank(state.candidates),
                           !.completed_steps = Append(@, RANKING)]
               IN /\ state' = s
                  /\ stepStates' = Append(stepStates, s)
                  /\ pc' = AfterStep("step4")
                  /\ exc' = exc
    /\ current_state' = CurrentStateWhen(state')
    /\ UNCHANGED <<enable_ranking, generated, transformations, idx, candidates,
                   outcomes, nextId, ckptLog, reexec, result, state_files,
                   recover_result>>

SuccessResult(final_data) ==
    [success |-> TRUE,
     data |-> final_data,
     profile |-> state.data_profile,
     ranked_transformations |-> state.ranked_transformations,
     error |-> NoError]

\* The final re-execution of the best transformation and the successful return
FinalReexecute ==
    /\ pc = "final"
    /\ IF state.ranked_transformations # <<>>
          /\ state.ranked_transformations[1].candidate.passed
       THEN LET best == state.ranked_transformations[1].candidate.transformation IN
            \/ /\ RaiseInRun("executor failed")
               /\ UNCHANGED <<reexec, result>>
            \/ /\ reexec' = [done |-> TRUE, tid |-> best.id,
                             success |-> FALSE, output |-> InputData]
               /\ result' = <<SuccessResult(InputData)>>
               /\ pc' = "done"
               /\ exc' = exc
            \/ \E out \in Datasets :
               /\ reexec' = [done |-> TRUE, tid |-> best.id,
                             success |-> TRUE, output |-> out]
               /\ result' = <<SuccessResult(out)>>
               /\ pc' = "done"
               /\ exc' = exc
       ELSE /\ result' = <<SuccessResult(InputData)>>
            /\ pc' = "done"
            /\ UNCHANGED <<reexec, exc>>
    /\ UNCHANGED <<enable_ranking, state, generated, transformations, idx,
                   candidates, outcomes, nextId, ckptLog, stepStates,
                   current_state, state_files, recover_result>>

\* except Exception as e: record the message, then checkpoint
HandleException ==
    /\ pc = "except"
    /\ state' = [state EXCEPT !.error = exc]
    /\ current_state' = CurrentStateWhen(state')
    /\ pc' = "ckpt_except"
    /\ UNCHANGED <<enable_ranking, generated, transformations, idx, candidates,
                   outcomes, nextId, ckptLog, stepStates, exc, reexec, result,
                   state_files, recover_result>>

\* the return statement of the handler
ReturnFailure ==
    /\ pc = "return_fail"
    /\ result' = <<[success |-> FALSE,
                    data |-> NoData,
                    profile |-> NoProfile,
                    ranked_transformations |-> <<>>,
                    error |-> exc]>>
    /\ pc' = "done"
    /\ UNCHANGED <<enable_ranking, state, generated, transformations, idx,
                   candidates, outcomes, nextId, ckptLog, stepStates,
                   current_state, exc, reexec, state_files, recover_result>>

\* recover(state_name): the exception of load_state that escapes it, if
\* any, the PipelineResult it returns otherwise, and what _current_state
\* becomes
RecoverOp(files, name, current) ==
    LET loaded == LoadStateOp(files, name)
    IN  IF loaded.error # NoError
        THEN [raised |-> loaded.error, result |-> <<>>, current_state |-> current]
        ELSE IF loaded.state = <<>>
        THEN [raised |-> NoError,
              result |-> <<[success |-> FALSE,
                            data |-> NoData,
                            profile |-> NoProfile,
                            ranked_transformations |-> <<>>,
                            error |-> "No saved state found"]>>,
              current_state |-> current]
        ELSE [raised |-> NoError,
              result |-> <<[success |-> TRUE,
                            data |-> NoData,
                            profile |-> loaded.state[1].data_profile,
                            ranked_transformations |->
                                loaded.state[1].ranked_transformations,
                            error |-> NoError]>>,
              current_state |-> loaded.state]

\* recover, called on the manager before its run or after it returned
Recover ==
    /\ pc \in {"step1", "done"}
    /\ \E name \in SmNames :
         LET r == RecoverOp(state_files, name, current_state)
         IN  /\ recover_result' = <<[raised |-> r.raised, result |-> r.result]>>
             /\ current_state' = r.current_state
    /\ UNCHANGED <<pc, enable_ranking, state, generated, transformations, idx,
                   candidates, outcomes, nextId, ckptLog, stepStates, exc,
                   reexec, result, state_files>>


-----------------------------------------------------------------------------
(* TransformationDAG *)

NodeIds == 1..MaxNodes

EdgeCount(deps) ==
    Cardinality({e \in NodeIds \X NodeIds : e[2] \in deps[e[1]]})

\* in_degree as the first loops of topological_sort compute it
InDegree(ns, deps) ==
    [n \in Range(ns) |-> Cardinality({d \in deps[n] : d \in Range(ns)})]

\* the inner for loop: reduce the in-degree of the nodes that depend on
\* current, in dict order, queueing those that reach zero
RECURSIVE Relax(_, _, _, _, _, _)
Relax(i, ns, deps, current, indeg, queue) ==
    IF i > Len(ns) THEN [indeg |-> indeg, queue |-> queue]
    ELSE IF current \in deps[ns[i]]
         THEN LET d == indeg[ns[i]] - 1
                  indeg2 == [indeg EXCEPT ![ns[i]] = d]
              IN Relax(i + 1, ns, deps, current, indeg2,
                       IF d = 0 THEN Append(queue, ns[i]) ELSE queue)
         ELSE Relax(i + 1, ns, deps, current, indeg, queue)

\* the while loop of Kahn's algorithm
RECURSIVE KahnLoop(_, _, _, _, _)
KahnLoop(ns, deps, queue, order, indeg) ==
    IF queue = <<>> THEN order
    ELSE LET current == Head(queue)
             r == Relax(1, ns, deps, current, indeg, Tail(queue))
         IN KahnLoop(ns, deps, r.queue, Append(order, current), r.indeg)

\* the order topological_sort leaves in _execution_order when it computes
KahnOrder(ns, deps) ==
    LET indeg == InDegree(ns, deps)
        zero == SelectSeq(ns, LAMBDA n : indeg[n] = 0)
    IN KahnLoop(ns, deps, zero, <<>>, indeg)

NoSort == [kind |-> "none", order |-> <<>>]

SortResult(ns, order) ==
    IF Len(order) # Len(ns)
    THEN [kind |-> "error", order |-> <<>>]
    ELSE [kind |-> "ok", order |-> order]

InitDagVars ==
    /\ nodes = <<>>
    /\ dependencies = [n \in NodeIds |-> {}]
    /\ execution_order = <<>>
    /\ dagResult = NoSort
    /\ mutated = FALSE

\* add_transformation: a new id, or an id already present
AddTransformation ==
    \E id \in NodeIds :
      /\ id <= Len(nodes) + 1
      /\ nodes' = IF id \in Range(nodes) THEN nodes ELSE Append(nodes, id)
      /\ dependencies' = [dependencies EXCEPT ![id] = {}]
      /\ execution_order' = <<>>
      /\ dagResult' = NoSort
      /\ mutated' = TRUE

\* add_dependency between two transformations of the DAG
AddDependency ==
    \E a \in Range(nodes), b \in Range(nodes) :
      /\ b \in dependencies[a] \/ EdgeCount(dependencies) < MaxEdges
      /\ dependencies' = [dependencies EXCEPT ![a] = @ \cup {b}]
      /\ dagResult' = NoSort
      /\ mutated' = TRUE
      /\ UNCHANGED <<nodes, execution_order>>

\* topological_sort
TopologicalSort ==
    /\ IF execution_order # <<>>
       THEN /\ dagResult' = [kind |-> "ok", order |-> execution_order]
            /\ UNCHANGED execution_order
       ELSE LET order == KahnOrder(nodes, dependencies)
            IN /\ execution_order' = order
               /\ dagResult' = SortResult(nodes, order)
    /\ mutated' = FALSE
    /\ UNCHANGED <<nodes, dependencies>>

-----------------------------------------------------------------------------
(* TransformationExecutor *)

TransformationTypes ==
    {"fill_missing", "normalize", "encode_categorical",
     "remove_outliers", "drop_duplicates", "cast_type"}

\* _transformation_registry
Registry == TransformationTypes

\* a type tag with no entry in the registry
UnknownType == "unknown"

TIds == 1..MaxTid

Catalogue ==
    [id : TIds, type : TransformationTypes \cup {UnknownType}, reversible : BOOLEAN]

\* transformations given to execute_sequence
SeqTypes == {"normalize", "drop_duplicates", UnknownType}
SeqCatalogue == {t \in Catalogue : t.type \in SeqTypes /\ t.reversible /\ t.id = 1}

\* what the applier does when it is constructed and applied
ApplierOutcomes ==
    {[raised |-> TRUE, output |-> NoData]}
    \cup {[raised |-> FALSE, output |-> d] : d \in Datasets}

FailureResult(data, t, msg) ==
    [transformation |-> t, success |-> FALSE, output_data |-> data,
     error_message |-> msg]

\* Variant: a failed execute returns no dataset.
ExecuteOpNoData(data, t, ao, inst) ==
    IF t.type \notin Registry
    THEN [result |-> FailureResult(NoData, t, "Unknown transformation type"),
          instances |-> inst]
    ELSE IF ao.raised
    THEN [result |-> FailureResult(NoData, t, "applier failed"), instances |-> inst]
    ELSE [result |-> [transformation |-> t, success |-> TRUE,
                      output_data |-> ao.output, error_message |-> NoError],
          instances |-> [inst EXCEPT ![t.id] = <<[type |-> t.type, fitted |-> data]>>]]

\* execute: the result and the retained applier instances
ExecuteOp(data, t, ao, inst) ==
    IF t.type \notin Registry
    THEN [result |-> FailureResult(data, t, "Unknown transformation type"),
          instances |-> inst]
    ELSE IF ao.raised
    THEN [result |-> FailureResult(data, t, "applier failed"), instances |-> inst]
    ELSE [result |-> [transformation |-> t, success |-> TRUE,
                      output_data |-> ao.output, error_message |-> NoError],
          instances |-> [inst EXCEPT ![t.id] = <<[type |-> t.type, fitted |-> data]>>]]

\* Variant: the loop of execute_sequence does not break on a failure.
SeqMoreNoBreak(results, input) ==
    Len(results) < Len(input)

\* execute_sequence goes on while transformations remain and none failed
SeqMore(results, input) ==
    /\ Len(results) < Len(input)
    /\ IF results = <<>> THEN TRUE ELSE Last(results).success

InitExecVars ==
    /\ xpc = "idle"
    /\ instances = [i \in TIds |-> <<>>]
    /\ exResult = <<>>
    /\ exCall = <<>>
    /\ seqInput = <<>>
    /\ seqData = InputData
    /\ seqCurrent = InputData
    /\ seqResults = <<>>
    /\ seqCalls = <<>>

\* execute(data, transformation), called directly with a transformation of cat
ExecuteOn(cat) ==
    /\ xpc = "idle"
    /\ \E d \in Datasets, t \in cat, ao \in ApplierOutcomes :
         LET r == ExecuteOp(d, t, ao, instances) IN
         /\ exResult' = <<r.result>>
         /\ exCall' = <<[data |-> d, transformation |-> t, applier |-> ao]>>
         /\ instances' = r.instances
    /\ UNCHANGED <<xpc, seqInput, seqData, seqCurrent, seqResults, seqCalls>>

Execute == ExecuteOn(Catalogue)

\* execute_sequence(data, transformations): entry
SeqStart ==
    /\ xpc \in {"idle", "seqdone"}
    /\ \E d \in Datasets, ts \in SeqsUpTo(SeqCatalogue, MaxSeq) :
         /\ seqInput' = ts
         /\ seqData' = d
         /\ seqCurrent' = d
    /\ seqResults' = <<>>
    /\ seqCalls' = <<>>
    /\ exResult' = <<>>
    /\ exCall' = <<>>
    /\ xpc' = "seq"
    /\ UNCHANGED instances

\* execute_sequence: one iteration of the loop
SeqStep ==
    /\ xpc = "seq"
    /\ SeqMore(seqResults, seqInput)
    /\ \E ao \in ApplierOutcomes :
         LET t == seqInput[Len(seqResults) + 1]
             r == ExecuteOp(seqCurrent, t, ao, instances)
         IN /\ seqResults' = Append(seqResults, r.result)
            /\ seqCalls' = Append(seqCalls,
                                  [data |-> seqCurrent, transformation |-> t,
                                   applier |-> ao])
            /\ exResult' = <<r.result>>
            /\ exCall' = <<[data |-> seqCurrent, transformation |-> t,
                            applier |-> ao]>>
            /\ instances' = r.instances
            /\ seqCurrent' = IF r.result.success
                             THEN r.result.output_data ELSE seqCurrent
    /\ UNCHANGED <<xpc, seqInput, seqData>>

\* execute_sequence: return results
SeqReturn ==
    /\ xpc = "seq"
    /\ ~SeqMore(seqResults, seqInput)
    /\ xpc' = "seqdone"
    /\ UNCHANGED <<instances, exResult, exCall, seqInput, seqData, seqCurrent,
                   seqResults, seqCalls>>

-----------------------------------------------------------------------------
(* TransformationExecutor.reverse *)

\* appliers whose reverse method only raises NotImplementedError
IrreversibleAppliers == {"drop_duplicates", "remove_outliers", "fill_missing"}

\* transformations given to reverse, and to the execute calls before it
RevTypes == {"normalize", "drop_duplicates", "remove_outliers", UnknownType}
RevCatalogue == {t \in Catalogue : t.type \in RevTypes}

\* what the reverse method of the other appliers does with the dataset:
\* it raises, or returns a dataset computed from the one it is given and
\* from what the applier fitted (the original dataset, the dataset it was
\* given, or yet another one)
ReverseOutcomes ==
    {[raised |-> TRUE, output |-> NoData]}
    \cup {[raised |-> FALSE, output |-> d] : d \in Datasets}

ReverseFailure(err, by) == [error |-> err, output |-> NoData, by |-> by]

\* Variant: the reverse method of a row-removing applier returns the dataset.
ApplierReverseSilent(inst, data, ro) ==
    IF inst.type = "fill_missing"
    THEN ReverseFailure("NotImplementedError", <<inst>>)
    ELSE IF inst.type \in IrreversibleAppliers
    THEN [error |-> NoError, output |-> data, by |-> <<inst>>]
    ELSE IF ro.raised
    THEN ReverseFailure("applier raised", <<inst>>)
    ELSE [error |-> NoError, output |-> ro.output, by |-> <<inst>>]

\* transformer.reverse(data) of the applier instance inst
ApplierReverse(inst, data, ro) ==
    IF inst.type \in IrreversibleAppliers
    THEN ReverseFailure("NotImplementedError", <<inst>>)
    ELSE IF ro.raised
    THEN ReverseFailure("applier raised", <<inst>>)
    ELSE [error |-> NoError, output |-> ro.output, by |-> <<inst>>]

\* an applier constructed by reverse itself: it has fitted nothing
FreshInstance(t) == [type |-> t.type, fitted |-> NoData]

\* Variant: reverse always constructs a new applier.
ReverseOpFresh(data, t, ro, inst) ==
    IF ~t.reversible
    THEN ReverseFailure("NotImplementedError", <<>>)
    ELSE IF t.type \notin Registry
    THEN ReverseFailure("ValueError", <<>>)
    ELSE ApplierReverse(FreshInstance(t), data, ro)

\* reverse(data, transformation): the dataset returned or the error raised,
\* and the applier instance that performed it
ReverseOp(data, t, ro, inst) ==
    IF ~t.reversible
    THEN ReverseFailure("NotImplementedError", <<>>)
    ELSE IF inst[t.id] # <<>>
    THEN ApplierReverse(inst[t.id][1], data, ro)
    ELSE IF t.type \notin Registry
    THEN ReverseFailure("ValueError", <<>>)
    ELSE ApplierReverse(FreshInstance(t), data, ro)

InitRevVars ==
    /\ revCall = <<>>
    /\ revResult = <<>>
    /\ lastFit = [i \in TIds |-> <<>>]

\* what the reverse method of the applier that reverse(data, t) reaches can
\* do: an applier of IrreversibleAppliers only raises, and so does the call
\* that reaches no applier
ReverseOutcomesOf(t, inst) ==
    LET reached == IF ~t.reversible THEN <<>>
                   ELSE IF inst[t.id] # <<>> THEN inst[t.id]
                   ELSE IF t.type \notin Registry THEN <<>>
                   ELSE <<FreshInstance(t)>>
    IN  IF reached = <<>> THEN {[raised |-> TRUE, output |-> NoData]}
        ELSE IF reached[1].type \in IrreversibleAppliers
        THEN {[raised |-> TRUE, output |-> NoData]}
        ELSE ReverseOutcomes

\* reverse(data, transformation), called directly
Reverse ==
    /\ xpc = "idle"
    /\ \E d \in Datasets, t \in RevCatalogue :
       \E ro \in ReverseOutcomesOf(t, instances) :
         /\ revCall' = <<[data |-> d, transformation |-> t, applier |-> ro]>>
         /\ revResult' = <<ReverseOp(d, t, ro, instances)>>
    /\ exResult' = <<>>
    /\ exCall' = <<>>
    /\ UNCHANGED <<xpc, instances, lastFit, seqInput, seqData, seqCurrent,
                   seqResults, seqCalls>>

\* bookkeeping of an execute call for the reverse calls that follow it:
\* the applier a successful execute made for the id, and whether an execute
\* for the same id has failed since
NoteExecute ==
    /\ revCall' = <<>>
    /\ revResult' = <<>>
    /\ lastFit' =
         LET t == exCall'[1].transformation IN
         IF exResult'[1].success
         THEN [lastFit EXCEPT ![t.id] =
                  <<[applier |-> [type |-> t.type, fitted |-> exCall'[1].data],
                     failedSince |-> FALSE]>>]
         ELSE IF lastFit[t.id] # <<>>
         THEN [lastFit EXCEPT ![t.id] =
                  <<[applier |-> lastFit[t.id][1].applier, failedSince |-> TRUE]>>]
         ELSE lastFit

-----------------------------------------------------------------------------
(* CircuitBreaker (src/orchestrator/failure_recovery.py) *)

Breaker == [failure_count |-> failure_count,
            last_failure_time |-> last_failure_time,
            is_open |-> is_open]

Elapsed(b, t) == t - b.last_failure_time[1]

\* Variant: an open breaker lets every call through.
RejectsNever(b, timeout, t) == FALSE

\* the head of call: the circuit is open and the cooldown has not elapsed
Rejects(b, timeout, t) ==
    IF b.is_open /\ b.last_failure_time # <<>>
    THEN Elapsed(b, t) < timeout
    ELSE FALSE

\* the breaker after the head of call, for a call that is let through
Admit(b) ==
    IF b.is_open /\ b.last_failure_time # <<>>
    THEN [b EXCEPT !.is_open = FALSE, !.failure_count = 0]
    ELSE b

\* Variant: a rejected call restarts the cooldown.
CallOpRejectionRestartsCooldown(b, threshold, timeout, t, fails) ==
    IF Rejects(b, timeout, t)
    THEN [breaker |-> [b EXCEPT !.last_failure_time = <<t>>],
          invoked |-> FALSE, outcome |-> "Circuit breaker is open"]
    ELSE LET b1 == Admit(b)
             n == b1.failure_count + 1
         IN IF ~fails
            THEN [breaker |-> [b1 EXCEPT !.failure_count = 0],
                  invoked |-> TRUE, outcome |-> "returned"]
            ELSE [breaker |-> [failure_count |-> n,
                               last_failure_time |-> <<t>>,
                               is_open |-> IF n >= threshold THEN TRUE
                                           ELSE b1.is_open],
                  invoked |-> TRUE, outcome |-> "raised"]

\* call(func): the breaker afterwards, whether func was invoked and whether
\* call returned func's result, re-raised func's exception or raised
\* RuntimeError("Circuit breaker is open")
CallOp(b, threshold, timeout, t, fails) ==
    IF Rejects(b, timeout, t)
    THEN [breaker |-> b, invoked |-> FALSE, outcome |-> "Circuit breaker is open"]
    ELSE LET b1 == Admit(b)
             n == b1.failure_count + 1
         IN IF ~fails
            THEN [breaker |-> [b1 EXCEPT !.failure_count = 0],
                  invoked |-> TRUE, outcome |-> "returned"]
            ELSE [breaker |-> [failure_count |-> n,
                               last_failure_time |-> <<t>>,
                               is_open |-> IF n >= threshold THEN TRUE
                                           ELSE b1.is_open],
                  invoked |-> TRUE, outcome |-> "raised"]

CbOff ==
    /\ failure_threshold = 1
    /\ recovery_timeout = 0
    /\ failure_count = 0
    /\ last_failure_time = <<>>
    /\ is_open = FALSE
    /\ now = 1
    /\ cbLast = <<>>
    /\ streak = 0

\* CircuitBreaker(failure_threshold, recovery_timeout)
InitCbVars ==
    /\ failure_threshold \in 1..MaxThreshold
    /\ recovery_timeout \in 0..MaxTimeout
    /\ failure_count = 0
    /\ last_failure_time = <<>>
    /\ is_open = FALSE
    /\ now = 1
    /\ cbLast = <<>>
    /\ streak = 0

\* call(func) with a func that raises (fails) or returns
Call ==
    \E fails \in BOOLEAN :
       LET r == CallOp(Breaker, failure_threshold, recovery_timeout, now, fails)
       IN /\ IF r.outcome = "raised" THEN streak < MaxStreak ELSE TRUE
          /\ failure_count' = r.breaker.failure_count
          /\ last_failure_time' = r.breaker.last_failure_time
          /\ is_open' = r.breaker.is_open
          /\ cbLast' = <<[before |-> Breaker, at |-> now, fails |-> fails,
                          invoked |-> r.invoked, outcome |-> r.outcome]>>
          /\ streak' = IF ~r.invoked THEN streak
                       ELSE IF fails THEN streak + 1 ELSE 0
          /\ UNCHANGED <<failure_threshold, recovery_timeout, now>>

\* time passes between calls
Tick ==
    /\ now < MaxTime
    /\ now' = now + 1
    /\ UNCHANGED <<failure_threshold, recovery_timeout, failure_count,
                   last_failure_time, is_open, cbLast, streak>>

-----------------------------------------------------------------------------
(* with_retry (src/orchestrator/failure_recovery.py) *)

RetryConfigs ==
    {c \in [max_retries : 0..MaxRetries, initial_delay : 1..MaxDelay,
            backoff_factor : 1..MaxBackoff, max_delay : 1..MaxMaxDelay] :
        c.initial_delay <= c.max_delay}

\* what one invocation of the wrapped function does: it returns, raises an
\* exception of the caught classes, or raises another exception
InvocationOutcomes == {"returns", "raises caught", "raises other"}

\* Variant: the loop makes one more attempt.
RetryMoreOneExtra(a, max_retries) == a <= max_retries + 1

\* for attempt in range(max_retries + 1)
RetryMore(a, max_retries) == a <= max_retries

RetryOff ==
    /\ retry_config = [max_retries |-> 0, initial_delay |-> 1,
                       backoff_factor |-> 1, max_delay |-> 1]
    /\ rpc = "done"
    /\ attempt = 0
    /\ current_delay = 1
    /\ last_exception = <<>>
    /\ invocations = <<>>
    /\ sleeps = <<>>
    /\ retResult = <<>>

\* a call of the wrapper made by with_retry(max_retries, delay, backoff)
InitRetryVars ==
    /\ retry_config \in RetryConfigs
    /\ rpc = "loop"
    /\ attempt = 0
    /\ current_delay = retry_config.initial_delay
    /\ last_exception = <<>>
    /\ invocations = <<>>
    /\ sleeps = <<>>
    /\ retResult = <<>>

\* one iteration of the loop, up to the return, the escaping exception,
\* the call of time.sleep or the end of the iteration: the function is
\* invoked
RetryAttempt ==
    /\ rpc = "loop"
    /\ RetryMore(attempt, retry_config.max_retries)
    /\ \E o \in InvocationOutcomes :
         LET k == Len(invocations) + 1 IN
         /\ invocations' = Append(invocations, o)
         /\ IF o = "returns"
            THEN /\ rpc' = "done"
                 /\ retResult' = <<[kind |-> "returned", of |-> k]>>
                 /\ UNCHANGED <<attempt, last_exception, sleeps>>
            ELSE IF o = "raises other"
            THEN /\ rpc' = "done"
                 /\ retResult' = <<[kind |-> "raised", of |-> k]>>
                 /\ UNCHANGED <<attempt, last_exception, sleeps>>
            ELSE /\ last_exception' = <<k>>
                 /\ IF attempt < retry_config.max_retries
                    THEN /\ sleeps' = Append(sleeps, current_delay)
                         /\ rpc' = "sleep"
                         /\ UNCHANGED attempt
                    ELSE /\ attempt' = attempt + 1
                         /\ UNCHANGED <<sleeps, rpc>>
                 /\ UNCHANGED retResult
    /\ UNCHANGED <<retry_config, current_delay>>

\* time.sleep(current_delay) returns: the delay is multiplied and the loop
\* goes to its next iteration
RetryWake ==
    /\ rpc = "sleep"
    /\ current_delay' = current_delay * retry_config.backoff_factor
    /\ attempt' = attempt + 1
    /\ rpc' = "loop"
    /\ UNCHANGED <<retry_config, last_exception, invocations, sleeps, retResult>>

\* after the loop: raise last_exception
RetryExhausted ==
    /\ rpc = "loop"
    /\ ~RetryMore(attempt, retry_config.max_retries)
    /\ rpc' = "done"
    /\ retResult' = <<[kind |-> "raised", of |-> last_exception[1]]>>
    /\ UNCHANGED <<retry_config, attempt, current_delay, last_exception,
                   invocations, sleeps>>

-----------------------------------------------------------------------------
(* FailureRecovery (src/orchestrator/failure_recovery.py) *)

SKIP == "skip"
RETRY == "retry"
ABORT == "abort"
FALLBACK == "fallback"
FailureStrategies == {SKIP, RETRY, ABORT, FALLBACK}

\* str(error) of the exceptions given to handle_failure
ErrorMessages == {"Test error", "other error"}

IndexOf(seq, x) == CHOOSE i \in 1..Len(seq) : seq[i] = x

\* _get_next_step: the following member of PipelineStep, <<>> (None) after
\* the last one
GetNextStep(current) ==
    LET i == IndexOf(PipelineSteps, current)
    IN IF i + 1 <= Len(PipelineSteps) THEN <<PipelineSteps[i + 1]>> ELSE <<>>

\* handle_failure: the state object afterwards and the tuple returned
\* (<<>> in the tuple is None)
HandleFailureOp(strat, step, msg, st) ==
    LET st1 == [st EXCEPT !.error = msg]
        next_step == GetNextStep(step)
        st2 == IF next_step # <<>>
               THEN [st1 EXCEPT !.current_step = next_step[1]]
               ELSE st1
    IN IF strat = ABORT THEN [state |-> st1, ret |-> <<ABORT, <<st1>>>>]
       ELSE IF strat = SKIP THEN [state |-> st2, ret |-> <<SKIP, <<st2>>>>]
       ELSE IF strat = RETRY THEN [state |-> st1, ret |-> <<RETRY, <<>>>>]
       ELSE [state |-> st1, ret |-> <<FALLBACK, <<st1>>>>]

FrOff ==
    /\ strategy = SKIP
    /\ recovery_history = <<>>
    /\ frState = InitialState
    /\ frCall = <<>>
    /\ frResult = <<>>

\* FailureRecovery(strategy) and a pipeline state at some step
InitFrVars ==
    /\ strategy \in FailureStrategies
    /\ recovery_history = <<>>
    /\ frState \in {[InitialState EXCEPT !.current_step = c] :
                       c \in Range(PipelineSteps)}
    /\ frCall = <<>>
    /\ frResult = <<>>

\* handle_failure(step, error, state)
HandleFailure ==
    /\ Len(recovery_history) < MaxHistory
    /\ \E step \in Range(PipelineSteps), msg \in ErrorMessages :
         LET r == HandleFailureOp(strategy, step, msg, frState) IN
         /\ recovery_history' =
               Append(recovery_history,
                      [strategy |-> strategy, step |-> step, error |-> msg])
         /\ frState' = r.state
         /\ frCall' = <<[step |-> step, error |-> msg, state |-> frState]>>
         /\ frResult' = r.ret
    /\ UNCHANGED strategy

\* clear_history()
ClearHistory ==
    /\ recovery_history' = <<>>
    /\ UNCHANGED <<strategy, frState, frCall, frResult>>

-----------------------------------------------------------------------------
(* RankingService.rank (src/ranking/ranker.py) *)

\* candidates given to rank: the quality after the transformation varies
RankCandidates ==
    {MakeCandidate([id |-> i, desc |-> i],
                   [exec |-> "ok", val |-> "passed", score |-> "ok",
                    qb |-> 0, qa |-> a]) : i \in 1..MaxRankIds, a \in Scores}

\* rank(candidates) of a service with or without a policy
RankOp(has_policy, cands) ==
    IF ~has_policy THEN [kind |-> "ValueError", ranked |-> <<>>]
    ELSE IF cands = <<>> THEN [kind |-> "returned", ranked |-> <<>>]
    ELSE [kind |-> "returned", ranked |-> Rank(cands)]

RankOff ==
    /\ rankCall = [has_policy |-> FALSE, candidates |-> <<>>]
    /\ rankResult = <<>>

InitRankVars ==
    /\ rankCall \in [has_policy : BOOLEAN,
                     candidates : SeqsUpTo(RankCandidates, MaxRankLen)]
    /\ rankResult = <<>>

\* rank(candidates)
RankCall ==
    /\ rankResult = <<>>
    /\ rankResult' = <<RankOp(rankCall.has_policy, rankCall.candidates)>>
    /\ UNCHANGED rankCall

-----------------------------------------------------------------------------
(* ValidationService.validate (src/validation/validator.py) *)

Issue(sev, code) == [severity |-> sev, code |-> code]

\* the lists made of one choice per part, in the order of the parts
Lists2(A, B) == {a \o b : a \in A, b \in B}
Lists3(A, B, C) == {a \o b \o c : a \in A, b \in B, c \in C}

\* IntegrityValidator.validate_all on a one-column dataset: the row-count
\* issue, then null preservation, then type preservation
IntegrityIssueLists ==
    Lists3({<<>>, <<Issue("error", "EXCESSIVE_ROW_LOSS")>>,
            <<Issue("warning", "ROW_LOSS")>>},
           {<<>>, <<Issue("error", "COLUMN_REMOVED")>>,
            <<Issue("error", "NULLS_INCREASED")>>},
           {<<>>, <<Issue("warning", "TYPE_CHANGED")>>})

\* LeakageDetector.check_leakage: exact rows, categorical, numeric
LeakageIssueLists ==
    Lists3({<<>>, <<Issue("error", "EXACT_ROW_LEAKAGE")>>},
           {<<>>, <<Issue("warning", "POTENTIAL_LEAKAGE")>>},
           {<<>>, <<Issue("info", "HIGH_CORRELATION")>>})

\* the issues of validate_column_existence, then of validate_column_types
SchemaIssueLists ==
    Lists2({<<>>, <<Issue("error", "MISSING_COLUMN")>>},
           {<<>>, <<Issue("warning", "TYPE_CONVERSION")>>,
            <<Issue("error", "INCOMPATIBLE_TYPE")>>})

\* Variant: a warning counts as an error.
HasErrorsOrWarnings(issues) ==
    \E i \in 1..Len(issues) : issues[i].severity \in {"error", "warning"}

\* any(issue.severity == "error" for issue in issues)
HasErrors(issues) ==
    \E i \in 1..Len(issues) : issues[i].severity = "error"

\* validate_schema_compatibility: (is_compatible, issues)
ValidateSchemaCompatibility(schema_issues) ==
    <<~HasErrors(schema_issues), schema_issues>>

\* validate: the ValidationResult (the row counts are left out)
ValidateOp(integrity_issues, leakage_issues, schema_issues) ==
    LET sc == ValidateSchemaCompatibility(schema_issues)
        all_issues == integrity_issues \o leakage_issues \o sc[2]
    IN [passed |-> ~HasErrors(all_issues),
        issues |-> all_issues,
        schema_compatible |-> sc[1]]

ValOff ==
    /\ valCall = [integrity |-> <<>>, leakage |-> <<>>, schema |-> <<>>]
    /\ valResult = <<>>

InitValVars ==
    /\ valCall \in [integrity : IntegrityIssueLists,
                    leakage : LeakageIssueLists,
                    schema : SchemaIssueLists]
    /\ valResult = <<>>

\* validate(original, transformed, profile)
Validate ==
    /\ valResult = <<>>
    /\ valResult' = <<ValidateOp(valCall.integrity, valCall.leakage,
                                 valCall.schema)>>
    /\ UNCHANGED valCall

-----------------------------------------------------------------------------
(* IntegrityValidator.validate_row_count (src/validation/integrity_validator.py) *)

\* row_count_tolerance, a fraction num/den of the original rows
Tolerances ==
    { tl \in [num : 0..MaxTolDen, den : 1..MaxTolDen] : tl.num <= tl.den }

\* (original_count - transformed_count) / original_count > num/den,
\* for original_count > 0, by cross-multiplication
LossExceeds(original_count, transformed_count, tol) ==
    (original_count - transformed_count) * tol.den > tol.num * original_count

\* the same comparison made inclusive
LossReaches(original_count, transformed_count, tol) ==
    (original_count - transformed_count) * tol.den >= tol.num * original_count

\* validate_row_count with ">=" where the source has ">"
ValidateRowCountInclusive(original_count, transformed_count, tol) ==
    IF original_count = 0 THEN <<>>
    ELSE IF LossReaches(original_count, transformed_count, tol)
         THEN <<Issue("error", "EXCESSIVE_ROW_LOSS")>>
    ELSE IF original_count - transformed_count > 0
         THEN <<Issue("warning", "ROW_LOSS")>>
    ELSE <<>>

\* validate_row_count: None for an empty original, else the loss ratio
\* against the tolerance, then against zero
ValidateRowCount(original_count, transformed_count, tol) ==
    IF original_count = 0 THEN <<>>
    ELSE IF LossExceeds(original_count, transformed_count, tol)
         THEN <<Issue("error", "EXCESSIVE_ROW_LOSS")>>
    ELSE IF original_count - transformed_count > 0
         THEN <<Issue("warning", "ROW_LOSS")>>
    ELSE <<>>

RowOff ==
    /\ rowCall = <<>>
    /\ rowResult = <<>>

InitRowVars == RowOff

\* one validate_row_count call on datasets of any two sizes
ValidateRowCountCall ==
    \E o \in 0..MaxRows, t \in 0..MaxRows, tol \in Tolerances :
        /\ rowCall' = <<[original_count |-> o, transformed_count |-> t,
                         tolerance |-> tol]>>
        /\ rowResult' = ValidateRowCount(o, t, tol)

-----------------------------------------------------------------------------
(* SchemaValidator (src/validation/schema_validator.py) *)

ColumnNames == 1..MaxCols

ColumnIssue(sev, code, col) == [severity |-> sev, code |-> code, column |-> col]

\* the column names a DataProfile may hold: profile.columns is a dict the
\* caller supplies, whose keys need not be the columns of either dataset
ProfileColumnSets == SUBSET ColumnNames

\* the orders a loop over a Python set may visit its members in
Orderings(S) ==
    { q \in [1..Cardinality(S) -> S] :
        \A i, j \in 1..Cardinality(S) : q[i] = q[j] => i = j }

\* what the dtype of a column of the transformed dataset is to the profiled
\* one: no numeric-to-object change, one whose values astype(float) parses,
\* or one it does not parse
TypeFindings == {"same", "parseable", "unparseable"}

\* validate_column_existence: one error per column of the original that the
\* transformed dataset lacks; order lists that set difference
ValidateColumnExistence(original_cols, transformed_cols, order) ==
    [i \in 1..Len(order) |-> ColumnIssue("error", "MISSING_COLUMN", order[i])]

\* validate_column_types: the profile's columns in order, skipping the ones
\* the transformed dataset lacks
ValidateColumnTypes(transformed_cols, profile_cols, findings) ==
    LET hit(c) == /\ c \in profile_cols
                  /\ c \in transformed_cols
                  /\ findings[c] # "same"
        cols == SelectSeq([i \in 1..MaxCols |-> i], hit)
    IN  [i \in 1..Len(cols) |->
            IF findings[cols[i]] = "parseable"
            THEN ColumnIssue("warning", "TYPE_CONVERSION", cols[i])
            ELSE ColumnIssue("error", "INCOMPATIBLE_TYPE", cols[i])]

\* validate_schema_compatibility on datasets with these columns
SchemaCompatibility(original_cols, transformed_cols, profile_cols, findings, order) ==
    ValidateSchemaCompatibility(
        ValidateColumnExistence(original_cols, transformed_cols, order)
            \o ValidateColumnTypes(transformed_cols, profile_cols, findings))

SchOff ==
    /\ schCall = <<>>
    /\ schResult = <<>>

InitSchVars == SchOff

\* one validate_schema_compatibility call on an original dataset, a
\* transformed one and a profile
ValidateSchemaCall ==
    \E original_cols \in SUBSET ColumnNames, transformed_cols \in SUBSET ColumnNames,
       profile_cols \in ProfileColumnSets :
        \E order \in Orderings(original_cols \ transformed_cols),
           found \in [profile_cols \cap transformed_cols -> TypeFindings] :
            LET findings == [c \in ColumnNames |->
                                IF c \in DOMAIN found THEN found[c] ELSE "same"]
            IN  /\ schCall' = <<[original |-> original_cols,
                                 transformed |-> transformed_cols,
                                 profile |-> profile_cols,
                                 findings |-> findings]>>
                /\ schResult' = SchemaCompatibility(original_cols, transformed_cols,
                                                    profile_cols, findings, order)

-----------------------------------------------------------------------------
(* Comparator.compare and the candidate assembly of step 3                  *)
(* (src/quality_scoring/comparator.py, src/orchestrator/pipeline_manager.py) *)

\* QualityMetrics values
QualityMetrics ==
    [completeness : 0..MaxMetric, consistency : 0..MaxMetric,
     validity : 0..MaxMetric, uniqueness : 0..MaxMetric, overall : 0..MaxMetric]

\* compare with the operands of every subtraction exchanged
CompareReversed(before, after) ==
    [before |-> before,
     after |-> after,
     improvement |->
        [completeness |-> before.completeness - after.completeness,
         consistency |-> before.consistency - after.consistency,
         validity |-> before.validity - after.validity,
         uniqueness |-> before.uniqueness - after.uniqueness,
         overall |-> before.overall - after.overall],
     composite_delta |-> before.overall - after.overall]

\* Comparator.compare: the QualityDelta of two QualityMetrics
Compare(before, after) ==
    [before |-> before,
     after |-> after,
     improvement |->
        [completeness |-> after.completeness - before.completeness,
         consistency |-> after.consistency - before.consistency,
         validity |-> after.validity - before.validity,
         uniqueness |-> after.uniqueness - before.uniqueness,
         overall |-> after.overall - before.overall],
     composite_delta |-> after.overall - before.overall]

\* the candidate an iteration of step 3 builds once execution succeeded and
\* validation passed: the two scores, their comparison, the candidate
AssembleCandidateOp(scored_before, scored_after) ==
    LET quality_before == scored_before
        quality_after == scored_after
        quality_delta == Compare(quality_before, quality_after)
    IN  [quality_before |-> quality_before,
         quality_after |-> quality_after,
         quality_delta |-> quality_delta]

CmpOff == assembled = <<>>

InitCmpVars == CmpOff

\* the scoring part of one iteration, for any two scores of the scorer
AssembleCandidate ==
    /\ assembled = <<>>
    /\ \E scored_before \in QualityMetrics, scored_after \in QualityMetrics :
        assembled' = <<AssembleCandidateOp(scored_before, scored_after)>>

-----------------------------------------------------------------------------
(* StateManager (src/orchestrator/state_manager.py) *)

SmCandidate(i, delta) == [transformation |-> i, composite_delta |-> delta]

SmRanked(i, score) ==
    [rank |-> i, candidate |-> SmCandidate(i, 0), composite_score |-> score]

\* a PipelineState
SmState(step, done, profile, cands, ranked, err) ==
    [current_step |-> step,
     completed_steps |-> done,
     data_profile |-> profile,
     candidates |-> cands,
     ranked_transformations |-> ranked,
     error |-> err]

\* PipelineState objects: a fresh one, one after profiling that holds an
\* error message, ones after validation with some candidates and some of
\* them ranked, and ones that hold a float that is inf or NaN (a column
\* statistic or the overall_missing_percentage of the profile, the
\* composite_delta of a candidate, the composite_score of a ranked
\* transformation)
SmStates ==
    LET validated == <<PROFILING, GENERATION, VALIDATION>>
    IN  {SmState(PROFILING, <<>>, NoProfile, <<>>, <<>>, NoError),
         SmState(GENERATION, <<PROFILING>>, 1, <<>>, <<>>, "Test error"),
         SmState(GENERATION, <<PROFILING>>, InfStatProfile, <<>>, <<>>, NoError),
         SmState(GENERATION, <<PROFILING>>, NaNPercentProfile, <<>>, <<>>, NoError),
         SmState(RANKING, validated, 1, <<SmCandidate(1, NaN)>>, <<>>, NoError),
         SmState(RANKING, validated, 1, <<SmCandidate(1, 0)>>,
                 <<SmRanked(1, Inf)>>, NoError)}
        \cup
        {SmState(RANKING, validated, 1,
                 [i \in 1..q[1] |-> SmCandidate(i, 0)],
                 [i \in 1..q[2] |-> SmRanked(i, 0)], NoError) :
            q \in {r \in (0..MaxSmItems) \X (0..MaxSmItems) : r[2] <= r[1]}}

\* the name field of a call that takes no name
NoName == "none"

SmOff ==
    /\ disk = [n \in SmNames |-> <<>>]
    /\ smCurrent = <<>>
    /\ smCall = <<>>
    /\ smResult = <<>>
    /\ lastSaved = [n \in SmNames |-> <<>>]

InitSmVars == SmOff

\* save_state(state, name)
SaveState ==
    \E st \in SmStates, name \in SmNames, wo \in WriteOutcomes :
        /\ disk' = SaveStateOp(disk, st, name, wo)
        /\ smCall' = <<[op |-> "save", name |-> name,
                        raised |-> IF wo = "written" THEN NoError ELSE "OSError"]>>
        /\ lastSaved' = IF wo = "written"
                        THEN [lastSaved EXCEPT ![name] = <<[state |-> st]>>]
                        ELSE lastSaved
        /\ UNCHANGED <<smCurrent, smResult>>

\* load_state(name)
LoadState ==
    \E name \in SmNames :
        LET loaded == LoadStateOp(disk, name)
        IN  /\ smResult' = loaded.state
            /\ smCurrent' = IF loaded.state = <<>> THEN smCurrent ELSE loaded.state
            /\ smCall' = <<[op |-> "load", name |-> name, raised |-> loaded.error]>>
            /\ UNCHANGED <<disk, lastSaved>>

\* set_current_state(state)
SetCurrentState ==
    \E st \in SmStates :
        /\ smCurrent' = <<st>>
        /\ smCall' = <<[op |-> "set", name |-> NoName, raised |-> NoError]>>
        /\ UNCHANGED <<disk, smResult, lastSaved>>

\* clear_state(name)
ClearState ==
    \E name \in SmNames :
        /\ disk' = [disk EXCEPT ![name] = <<>>]
        /\ smCurrent' = <<>>
        /\ smCall' = <<[op |-> "clear", name |-> name, raised |-> NoError]>>
        /\ lastSaved' = [lastSaved EXCEPT ![name] = <<>>]
        /\ UNCHANGED smResult

-----------------------------------------------------------------------------
(* CandidateGenerator and ReversibilityChecker                              *)
(* (src/transformation/candidate_generator.py, reversibility.py)            *)

\* ColumnProfile, as far as the generator reads it; the statistics are
\* present or None
GenColumnProfiles ==
    [inferred_type : {"numeric"}, null_count : {0, 1}, has_mean : BOOLEAN,
     has_min : BOOLEAN, has_max : BOOLEAN, has_std : BOOLEAN]
    \cup
    [inferred_type : {"categorical", "datetime", "text", "boolean"},
     null_count : {0, 1}, has_mean : {FALSE},
     has_min : {FALSE}, has_max : {FALSE}, has_std : {FALSE}]

\* DataProfile: the columns dict in insertion order (a column is named by
\* its position) and duplicate_rows
GenProfiles ==
    [columns : SeqsUpTo(GenColumnProfiles, MaxGenCols), duplicate_rows : 0..MaxDup]

RECURSIVE Concat(_)
Concat(lists) ==
    IF lists = <<>> THEN <<>> ELSE lists[1] \o Concat(Tail(lists))

\* a Transformation before its id is drawn (the description is left out)
Descr(type, target_columns, params, reversible) ==
    [type |-> type, target_columns |-> target_columns,
     params |-> params, reversible |-> reversible]

\* _generate_fill_missing_candidates, for one column
FillMissingFor(name, c) ==
    IF c.null_count > 0
    THEN (IF c.inferred_type = "numeric"
          THEN (IF c.has_mean
                THEN <<Descr("fill_missing", <<name>>, [strategy |-> "mean"], TRUE)>>
                ELSE <<>>)
               \o <<Descr("fill_missing", <<name>>, [strategy |-> "median"], TRUE)>>
          ELSE IF c.inferred_type = "categorical"
          THEN <<Descr("fill_missing", <<name>>, [strategy |-> "mode"], TRUE)>>
          ELSE <<>>)
         \o <<Descr("fill_missing", <<name>>,
                    [strategy |-> "constant", fill_value |-> 0], TRUE)>>
    ELSE <<>>

\* _generate_normalize_candidates, for one column
NormalizeFor(name, c) ==
    IF c.inferred_type = "numeric"
    THEN <<Descr("normalize", <<name>>, [method |-> "standard"], TRUE)>>
         \o (IF c.has_min /\ c.has_max
             THEN <<Descr("normalize", <<name>>, [method |-> "minmax"], TRUE)>>
             ELSE <<>>)
    ELSE <<>>

\* _generate_encode_categorical_candidates, for one column
EncodeCategoricalFor(name, c) ==
    IF c.inferred_type = "categorical"
    THEN <<Descr("encode_categorical", <<name>>, [method |-> "onehot"], FALSE),
           Descr("encode_categorical", <<name>>, [method |-> "label"], TRUE)>>
    ELSE <<>>

\* _generate_remove_outliers_candidates, for one column
RemoveOutliersFor(name, c) ==
    IF c.inferred_type = "numeric" /\ c.has_std
    THEN <<Descr("remove_outliers", <<name>>,
                 [method |-> "iqr", threshold |-> "1.5"], FALSE),
           Descr("remove_outliers", <<name>>,
                 [method |-> "zscore", threshold |-> "3.0"], FALSE)>>
    ELSE <<>>

\* _create_drop_duplicates_candidate
DropDuplicatesCandidate ==
    Descr("drop_duplicates", <<>>, <<>>, FALSE)

\* _generate_cast_type_candidates, for one column
CastTypeFor(name, c) ==
    (IF c.inferred_type = "text"
     THEN <<Descr("cast_type", <<name>>, [target_type |-> "datetime"], TRUE)>>
     ELSE <<>>)
    \o (IF c.inferred_type = "text" /\ c.null_count = 0
        THEN <<Descr("cast_type", <<name>>, [target_type |-> "numeric"], TRUE)>>
        ELSE <<>>)

\* generate_candidates without the ids: each rule over the columns in
\* order, one rule after the other
GenerateDescriptors(profile) ==
    LET cols == profile.columns
        over(Rule(_, _)) == Concat([i \in 1..Len(cols) |-> Rule(i, cols[i])])
    IN  over(FillMissingFor)
        \o over(NormalizeFor)
        \o over(EncodeCategoricalFor)
        \o over(RemoveOutliersFor)
        \o (IF profile.duplicate_rows > 0 THEN <<DropDuplicatesCandidate>> ELSE <<>>)
        \o over(CastTypeFor)

\* generate_candidates: every Transformation is built with
\* id = str(uuid.uuid4()), a value no earlier call returned
GenerateCandidates(profile, firstId) ==
    LET ds == GenerateDescriptors(profile)
    IN  [i \in 1..Len(ds) |->
            [id |-> firstId + i - 1,
             type |-> ds[i].type,
             target_columns |-> ds[i].target_columns,
             params |-> ds[i].params,
             reversible |-> ds[i].reversible]]

\* ReversibilityChecker.is_reversible
IsReversible(t) ==
    IF t.type \in {"normalize", "encode_categorical", "cast_type"} THEN TRUE
    ELSE IF t.type \in {"remove_outliers", "drop_duplicates"} THEN FALSE
    ELSE IF t.type \in {"fill_missing"}
    THEN (IF "strategy" \in DOMAIN t.params THEN t.params.strategy ELSE "")
             = "constant"
    ELSE t.reversible

GenOff ==
    /\ genProfile = [columns |-> <<>>, duplicate_rows |-> 0]
    /\ genCalls = <<>>
    /\ genNextId = 1

InitGenVars ==
    /\ genProfile \in GenProfiles
    /\ genCalls = <<>>
    /\ genNextId = 1

\* one generate_candidates call on the profile
GenerateCall ==
    /\ Len(genCalls) < MaxGenCalls
    /\ LET made == GenerateCandidates(genProfile, genNextId)
       IN  /\ genCalls' = Append(genCalls, made)
           /\ genNextId' = genNextId + Len(made)
    /\ UNCHANGED genProfile

-----------------------------------------------------------------------------
(* TransformationDAGBuilder (src/transformation/dag.py); its _dag is the    *)
(* graph of the variables nodes, dependencies and execution_order           *)

\* lists of transformations with pairwise distinct ids (a transformation's
\* id is its position) and any target_columns lists
BldLists ==
    UNION { [1..n -> SeqsUpTo(1..MaxBldCols, MaxTargets)] : n \in 0..MaxBld }

\* add_dependency: a ValueError when either id is not a node
AddDependencyOp(ns, deps, a, b) ==
    IF a \notin Range(ns) \/ b \notin Range(ns)
    THEN [raised |-> TRUE, deps |-> deps]
    ELSE [raised |-> FALSE, deps |-> [deps EXCEPT ![a] = @ \cup {b}]]

\* the inner loop of auto_build_dependencies over the target columns of
\* one transformation; producers maps a column to the id that last
\* touched it (0: none yet)
RECURSIVE AutoBuildColumns(_, _, _, _, _, _)
AutoBuildColumns(ns, tid, cols, j, producers, deps) ==
    IF j > Len(cols)
    THEN [raised |-> FALSE, producers |-> producers, deps |-> deps]
    ELSE LET col == cols[j]
             added == IF producers[col] # 0
                      THEN AddDependencyOp(ns, deps, tid, producers[col])
                      ELSE [raised |-> FALSE, deps |-> deps]
         IN  IF added.raised
             THEN [raised |-> TRUE, producers |-> producers, deps |-> added.deps]
             ELSE AutoBuildColumns(ns, tid, cols, j + 1,
                                   [producers EXCEPT ![col] = tid], added.deps)

\* the outer loop of auto_build_dependencies over the transformations
RECURSIVE AutoBuildFrom(_, _, _, _, _)
AutoBuildFrom(ns, ts, i, producers, deps) ==
    IF i > Len(ts)
    THEN [raised |-> FALSE, deps |-> deps]
    ELSE LET r == AutoBuildColumns(ns, i, ts[i], 1, producers, deps)
         IN  IF r.raised
             THEN [raised |-> TRUE, deps |-> r.deps]
             ELSE AutoBuildFrom(ns, ts, i + 1, r.producers, r.deps)

\* auto_build_dependencies on a list of transformations
AutoBuildDependenciesOp(ns, ts, deps) ==
    AutoBuildFrom(ns, ts, 1, [c \in 1..MaxBldCols |-> 0], deps)

BldOff ==
    /\ bldInput = <<>>
    /\ bldPc = "off"

InitBldVars ==
    /\ bldInput \in BldLists
    /\ bldPc = "new"

\* add_transformations: add_transformation for each, in order
AddTransformations ==
    /\ bldPc = "new"
    /\ nodes' = [i \in 1..Len(bldInput) |-> i]
    /\ dependencies' = [n \in NodeIds |->
                            IF n <= Len(bldInput) THEN {} ELSE dependencies[n]]
    /\ execution_order' = <<>>
    /\ dagResult' = NoSort
    /\ mutated' = (Len(bldInput) > 0 \/ mutated)
    /\ bldPc' = "added"
    /\ UNCHANGED bldInput

\* auto_build_dependencies on the same list
AutoBuildDependencies ==
    /\ bldPc = "added"
    /\ LET r == AutoBuildDependenciesOp(nodes, bldInput, dependencies)
       IN  /\ dependencies' = r.deps
           /\ bldPc' = IF r.raised THEN "raised" ELSE "built"
           /\ mutated' = (r.deps # dependencies \/ mutated)
    /\ dagResult' = NoSort
    /\ UNCHANGED <<nodes, execution_order, bldInput>>

\* build().topological_sort()
BuildAndSort ==
    /\ bldPc = "built"
    /\ TopologicalSort
    /\ bldPc' = "sorted"
    /\ UNCHANGED bldInput

\* all groups but the run, the graph and the executor in their initial state
AuxOff == InitRevVars /\ CbOff /\ RetryOff /\ FrOff /\ RankOff /\ ValOff /\ RowOff /\ SchOff /\ CmpOff /\ SmOff /\ GenOff /\ BldOff

-----------------------------------------------------------------------------
(* Specifications *)

RunOff ==
    /\ pc = "off"
    /\ enable_ranking = FALSE
    /\ state = InitialState
    /\ generated = <<>>
    /\ transformations = <<>>
    /\ idx = 1
    /\ candidates = <<>>
    /\ outcomes = <<>>
    /\ nextId = 1
    /\ ckptLog = <<>>
    /\ stepStates = <<>>
    /\ current_state = <<>>
    /\ exc = NoError
    /\ reexec = NoReexec
    /\ result = <<>>
    /\ state_files = NoFiles
    /\ recover_result = <<>>

\* One pipeline run
Init == InitRun /\ InitDagVars /\ InitExecVars /\ AuxOff

Next ==
    \/ ExecuteProfiling /\ UNCHANGED <<dagVars, execVars, auxVars>>
    \/ SaveCheckpoint /\ UNCHANGED <<dagVars, execVars, auxVars>>
    \/ ExecuteCandidateGeneration /\ UNCHANGED <<dagVars, execVars, auxVars>>
    \/ Step3Setup /\ UNCHANGED <<dagVars, execVars, auxVars>>
    \/ Step3Process /\ UNCHANGED <<dagVars, execVars, auxVars>>
    \/ Step3Finish /\ UNCHANGED <<dagVars, execVars, auxVars>>
    \/ ExecuteRanking /\ UNCHANGED <<dagVars, execVars, auxVars>>
    \/ FinalReexecute /\ UNCHANGED <<dagVars, execVars, auxVars>>
    \/ HandleException /\ UNCHANGED <<dagVars, execVars, auxVars>>
    \/ ReturnFailure /\ UNCHANGED <<dagVars, execVars, auxVars>>

Spec == Init /\ [][Next]_vars

\* A PipelineManager: its run, and the recover calls made on it before the
\* run and after it returned
NextMgr ==
    \/ Next
    \/ Recover /\ UNCHANGED <<dagVars, execVars, auxVars>>

SpecMgr == Init /\ [][NextMgr]_vars

\* A TransformationDAG under add_transformation / add_dependency /
\* topological_sort calls
InitDag == RunOff /\ InitDagVars /\ InitExecVars /\ AuxOff

NextDag ==
    \/ AddTransformation /\ UNCHANGED <<runVars, execVars, auxVars>>
    \/ AddDependency /\ UNCHANGED <<runVars, execVars, auxVars>>
    \/ TopologicalSort /\ UNCHANGED <<runVars, execVars, auxVars>>

SpecDag == InitDag /\ [][NextDag]_vars

\* A TransformationExecutor under execute calls
InitExec == RunOff /\ InitDagVars /\ InitExecVars /\ AuxOff

NextExec ==
    \/ Execute /\ UNCHANGED <<runVars, dagVars, auxVars>>

SpecExec == InitExec /\ [][NextExec]_vars

\* A TransformationExecutor under execute_sequence calls
InitSeq == RunOff /\ InitDagVars /\ InitExecVars /\ AuxOff

NextSeq ==
    \/ SeqStart /\ UNCHANGED <<runVars, dagVars, auxVars>>
    \/ SeqStep /\ UNCHANGED <<runVars, dagVars, auxVars>>
    \/ SeqReturn /\ UNCHANGED <<runVars, dagVars, auxVars>>

SpecSeq == InitSeq /\ [][NextSeq]_vars

\* what each of the specifications of one component leaves alone: the other
\* groups, in their initial state
revRest ==
    <<runVars, dagVars, cbVars, retryVars, frVars, rankVars, valVars, rowVars, schVars, cmpVars, smVars, genVars, bldVars>>

RevRestOff ==
    /\ RunOff /\ InitDagVars /\ InitExecVars
    /\ CbOff /\ RetryOff /\ FrOff /\ RankOff /\ ValOff /\ RowOff /\ SchOff /\ CmpOff /\ SmOff /\ GenOff /\ BldOff

cbRest ==
    <<runVars, dagVars, execVars, revVars, retryVars, frVars, rankVars, valVars, rowVars, schVars, cmpVars, smVars, genVars, bldVars>>

CbRestOff ==
    /\ RunOff /\ InitDagVars /\ InitExecVars
    /\ InitRevVars /\ RetryOff /\ FrOff /\ RankOff /\ ValOff /\ RowOff /\ SchOff /\ CmpOff /\ SmOff /\ GenOff /\ BldOff

retryRest ==
    <<runVars, dagVars, execVars, revVars, cbVars, frVars, rankVars, valVars, rowVars, schVars, cmpVars, smVars, genVars, bldVars>>

RetryRestOff ==
    /\ RunOff /\ InitDagVars /\ InitExecVars
    /\ InitRevVars /\ CbOff /\ FrOff /\ RankOff /\ ValOff /\ RowOff /\ SchOff /\ CmpOff /\ SmOff /\ GenOff /\ BldOff

frRest ==
    <<runVars, dagVars, execVars, revVars, cbVars, retryVars, rankVars, valVars, rowVars, schVars, cmpVars, smVars, genVars, bldVars>>

FrRestOff ==
    /\ RunOff /\ InitDagVars /\ InitExecVars
    /\ InitRevVars /\ CbOff /\ RetryOff /\ RankOff /\ ValOff /\ RowOff /\ SchOff /\ CmpOff /\ SmOff /\ GenOff /\ BldOff

rankRest ==
    <<runVars, dagVars, execVars, revVars, cbVars, retryVars, frVars, valVars, rowVars, schVars, cmpVars, smVars, genVars, bldVars>>

RankRestOff ==
    /\ RunOff /\ InitDagVars /\ InitExecVars
    /\ InitRevVars /\ CbOff /\ RetryOff /\ FrOff /\ ValOff /\ RowOff /\ SchOff /\ CmpOff /\ SmOff /\ GenOff /\ BldOff

valRest ==
    <<runVars, dagVars, execVars, revVars, cbVars, retryVars, frVars, rankVars, rowVars, schVars, cmpVars, smVars, genVars, bldVars>>

ValRestOff ==
    /\ RunOff /\ InitDagVars /\ InitExecVars
    /\ InitRevVars /\ CbOff /\ RetryOff /\ FrOff /\ RankOff /\ RowOff /\ SchOff /\ CmpOff /\ SmOff /\ GenOff /\ BldOff

rowRest ==
    <<runVars, dagVars, execVars, revVars, cbVars, retryVars, frVars, rankVars, valVars, schVars, cmpVars, smVars, genVars, bldVars>>

RowRestOff ==
    /\ RunOff /\ InitDagVars /\ InitExecVars
    /\ InitRevVars /\ CbOff /\ RetryOff /\ FrOff /\ RankOff /\ ValOff /\ SchOff /\ CmpOff /\ SmOff /\ GenOff /\ BldOff

schRest ==
    <<runVars, dagVars, execVars, revVars, cbVars, retryVars, frVars, rankVars, valVars, rowVars, cmpVars, smVars, genVars, bldVars>>

SchRestOff ==
    /\ RunOff /\ InitDagVars /\ InitExecVars
    /\ InitRevVars /\ CbOff /\ RetryOff /\ FrOff /\ RankOff /\ ValOff /\ RowOff /\ CmpOff /\ SmOff /\ GenOff /\ BldOff

cmpRest ==
    <<runVars, dagVars, execVars, revVars, cbVars, retryVars, frVars, rankVars, valVars, rowVars, schVars, smVars, genVars, bldVars>>

CmpRestOff ==
    /\ RunOff /\ InitDagVars /\ InitExecVars
    /\ InitRevVars /\ CbOff /\ RetryOff /\ FrOff /\ RankOff /\ ValOff /\ RowOff /\ SchOff /\ SmOff /\ GenOff /\ BldOff

smRest ==
    <<runVars, dagVars, execVars, revVars, cbVars, retryVars, frVars, rankVars, valVars, rowVars, schVars, cmpVars, genVars, bldVars>>

SmRestOff ==
    /\ RunOff /\ InitDagVars /\ InitExecVars
    /\ InitRevVars /\ CbOff /\ RetryOff /\ FrOff /\ RankOff /\ ValOff /\ RowOff /\ SchOff /\ CmpOff /\ GenOff /\ BldOff

genRest ==
    <<runVars, dagVars, execVars, revVars, cbVars, retryVars, frVars, rankVars, valVars, rowVars, schVars, cmpVars, smVars, bldVars>>

GenRestOff ==
    /\ RunOff /\ InitDagVars /\ InitExecVars
    /\ InitRevVars /\ CbOff /\ RetryOff /\ FrOff /\ RankOff /\ ValOff /\ RowOff /\ SchOff /\ CmpOff /\ SmOff /\ BldOff

bldRest ==
    <<runVars, execVars, revVars, cbVars, retryVars, frVars, rankVars, valVars, rowVars, schVars, cmpVars, smVars, genVars>>

BldRestOff ==
    /\ RunOff /\ InitExecVars
    /\ InitRevVars /\ CbOff /\ RetryOff /\ FrOff /\ RankOff /\ ValOff /\ RowOff /\ SchOff /\ CmpOff /\ SmOff /\ GenOff

\* A TransformationExecutor under execute and reverse calls
InitRev == RevRestOff /\ InitRevVars

NextRev ==
    \/ ExecuteOn(RevCatalogue) /\ NoteExecute /\ UNCHANGED revRest
    \/ Reverse /\ UNCHANGED revRest

SpecRev == InitRev /\ [][NextRev]_vars

\* A CircuitBreaker under call, with time passing
InitCb == CbRestOff /\ InitCbVars

NextCb ==
    \/ Call /\ UNCHANGED cbRest
    \/ Tick /\ UNCHANGED cbRest

SpecCb == InitCb /\ [][NextCb]_vars

\* One call of a function wrapped by with_retry
InitRetry == RetryRestOff /\ InitRetryVars

NextRetry ==
    \/ RetryAttempt /\ UNCHANGED retryRest
    \/ RetryWake /\ UNCHANGED retryRest
    \/ RetryExhausted /\ UNCHANGED retryRest

SpecRetry == InitRetry /\ [][NextRetry]_vars

\* A FailureRecovery under handle_failure and clear_history calls
InitFr == FrRestOff /\ InitFrVars

NextFr ==
    \/ HandleFailure /\ UNCHANGED frRest
    \/ ClearHistory /\ UNCHANGED frRest

SpecFr == InitFr /\ [][NextFr]_vars

\* One rank call of a RankingService
InitRank == RankRestOff /\ InitRankVars

NextRank ==
    \/ RankCall /\ UNCHANGED rankRest

SpecRank == InitRank /\ [][NextRank]_vars

\* One validate call of a ValidationService
InitVal == ValRestOff /\ InitValVars

NextVal ==
    \/ Validate /\ UNCHANGED valRest

SpecVal == InitVal /\ [][NextVal]_vars

InitRow == RowRestOff /\ InitRowVars

NextRow == ValidateRowCountCall /\ UNCHANGED rowRest

SpecRow == InitRow /\ [][NextRow]_vars

InitSch == SchRestOff /\ InitSchVars

NextSch == ValidateSchemaCall /\ UNCHANGED schRest

SpecSch == InitSch /\ [][NextSch]_vars

InitCmp == CmpRestOff /\ InitCmpVars

NextCmp == AssembleCandidate /\ UNCHANGED cmpRest

SpecCmp == InitCmp /\ [][NextCmp]_vars

InitSm == SmRestOff /\ InitSmVars

NextSm ==
    \/ SaveState /\ UNCHANGED smRest
    \/ LoadState /\ UNCHANGED smRest
    \/ SetCurrentState /\ UNCHANGED smRest
    \/ ClearState /\ UNCHANGED smRest

SpecSm == InitSm /\ [][NextSm]_vars

InitGen == GenRestOff /\ InitGenVars

NextGen == GenerateCall /\ UNCHANGED genRest

SpecGen == InitGen /\ [][NextGen]_vars

InitBld == BldRestOff /\ InitDagVars /\ InitBldVars

NextBld ==
    \/ AddTransformations /\ UNCHANGED bldRest
    \/ AutoBuildDependencies /\ UNCHANGED bldRest
    \/ BuildAndSort /\ UNCHANGED bldRest

SpecBld == InitBld /\ [][NextBld]_vars

-----------------------------------------------------------------------------
(* Claims *)



-----------------------------------------------------------------------------
(* Properties of PipelineManager.run (checked under Spec) *)

RunReturned == pc = "done" /\ result # <<>>

\* C1: run never lets an exception escape; when a step raises, the message
\* is recorded in state.error, a checkpoint of that state is attempted and
\* the returned PipelineResult has success = false and error = the message.
C1_RunReportsFailure ==
    /\ pc # "escaped"
    /\ pc = "done" => result # <<>>
    /\ (RunReturned /\ exc # NoError) =>
          /\ ~result[1].success
          /\ result[1].error = exc
          /\ state.error = exc
          /\ ckptLog # <<>>
          /\ Last(ckptLog).doc.error = exc
    /\ (RunReturned /\ exc = NoError) => result[1].success

C1_Witness ==
    /\ RunReturned
    /\ exc = "ranker failed"
    /\ ~result[1].success
    /\ Last(ckptLog).doc.error = "ranker failed"
    /\ ~Last(ckptLog).written

\* the transformations of step 3 whose recorded outcome satisfies Keep,
\* in generation order
Selected(Keep(_)) ==
    LET n == Len(outcomes)
        ix == SelectSeq([i \in 1..n |-> i], LAMBDA i : Keep(outcomes[i]))
    IN [k \in 1..Len(ix) |-> transformations[ix[k]]]

CandidateTransformations ==
    [k \in 1..Len(state.candidates) |-> state.candidates[k].transformation]

Step3Done == VALIDATION \in Range(state.completed_steps)

ExecutedAndValidated(o) == o.exec = "ok" /\ o.val = "passed"

ExecutedValidatedAndScored(o) ==
    o.exec = "ok" /\ o.val = "passed" /\ o.score = "ok"

\* C2 (as claimed): after step 3, state.candidates holds, in generation
\* order, exactly one candidate for each transformation whose execution
\* succeeded and whose validation passed, and the run is not aborted by any
\* per-transformation outcome.
C2_Original ==
    /\ exc # "candidate failed"
    /\ Step3Done =>
          /\ Len(outcomes) = Len(transformations)
          /\ CandidateTransformations = Selected(ExecutedAndValidated)

\* C2 (amended): after step 3, state.candidates holds, in generation order,
\* exactly one candidate for each transformation whose execution succeeded,
\* whose validation passed and whose scoring and comparison raised nothing,
\* and none for any other; no per-transformation outcome aborts the run.
C2_CandidatesAreScoredSurvivors ==
    /\ exc # "candidate failed"
    /\ Step3Done =>
          /\ Len(outcomes) = Len(transformations)
          /\ CandidateTransformations = Selected(ExecutedValidatedAndScored)

C2_Witness ==
    /\ Step3Done
    /\ Len(transformations) = 2
    /\ outcomes[1].score = "raise"
    /\ outcomes[2].score = "ok"
    /\ Len(state.candidates) = 1

StepPcs == {"step1", "step2", "step3", "loop", "step4", "final", "done"}

\* C3: a checkpoint is written after each step and before the next one
\* starts; a run with ranking enabled in which every step succeeds makes
\* exactly four checkpoint writes, the k-th carrying the state as step k
\* left it.
C3_CheckpointAfterEachStep ==
    /\ (exc = NoError /\ pc \in StepPcs) =>
          /\ Len(ckptLog) = Len(stepStates)
          /\ \A k \in 1..Len(ckptLog) : ckptLog[k].doc = Snapshot(stepStates[k])
    /\ (RunReturned /\ exc = NoError /\ enable_ranking) => Len(ckptLog) = 4

C3_Witness ==
    /\ RunReturned
    /\ exc = NoError
    /\ enable_ranking
    /\ Len(ckptLog) = 4
    /\ ckptLog[4].doc.ranked_transformations # <<>>
    /\ ckptLog[3].doc.ranked_transformations = <<>>
    /\ ckptLog[2].doc.completed_steps = <<PROFILING, GENERATION>>

\* C4 (as claimed): after a successful run, completed_steps is
\* [PROFILING, GENERATION, VALIDATION, RANKING] when ranking is enabled and
\* [PROFILING, GENERATION, VALIDATION] when it is not, for any number of
\* surviving candidates.
C4_CompletedSteps ==
    (RunReturned /\ result[1].success) =>
        state.completed_steps =
            IF enable_ranking
            THEN <<PROFILING, GENERATION, VALIDATION, RANKING>>
            ELSE <<PROFILING, GENERATION, VALIDATION>>

\* the ranked transformations whose validation passed
Qualifying ==
    {r \in Range(state.ranked_transformations) : r.candidate.passed}

\* C5: on a successful run result.data is the output of re-executing, on
\* the input, the highest-ranked transformation whose validation passed;
\* when none qualifies or the re-execution fails it is the input.
C5_FinalData ==
    (RunReturned /\ result[1].success) =>
        IF Qualifying # {}
        THEN LET best == CHOOSE r \in Qualifying :
                            \A q \in Qualifying : r.rank <= q.rank
             IN /\ reexec.done
                /\ reexec.tid = best.candidate.transformation.id
                /\ result[1].data =
                      IF reexec.success THEN reexec.output ELSE InputData
        ELSE /\ ~reexec.done
             /\ result[1].data = InputData

C5_Witness ==
    /\ RunReturned
    /\ result[1].success
    /\ Len(state.ranked_transformations) = 2
    /\ state.ranked_transformations[1].candidate.transformation.id
          > state.ranked_transformations[2].candidate.transformation.id
    /\ reexec.done
    /\ reexec.success
    /\ reexec.output # InputData
    /\ result[1].data = reexec.output

-----------------------------------------------------------------------------
(* Properties of TransformationDAG (checked under SpecDag) *)

RECURSIVE Closure(_, _)
Closure(S, deps) ==
    LET T == S \cup UNION {deps[n] : n \in S}
    IN IF T = S THEN S ELSE Closure(T, deps)

HasCycle(ns, deps) == \E n \in Range(ns) : n \in Closure(deps[n], deps)

Position(order, n) == CHOOSE i \in 1..Len(order) : order[i] = n

RespectsEdges(order, ns, deps) ==
    /\ Len(order) = Len(ns)
    /\ Range(order) = Range(ns)
    /\ \A n \in Range(ns) : \A d \in deps[n] :
          Position(order, d) < Position(order, n)

\* C6 (as claimed): for any acyclic dependency set over the added
\* transformations, topological_sort returns every node exactly once with
\* each dependency before every transformation that depends on it.
C6_SortRespectsEdges ==
    (dagResult.kind # "none" /\ ~HasCycle(nodes, dependencies)) =>
        /\ dagResult.kind = "ok"
        /\ RespectsEdges(dagResult.order, nodes, dependencies)

\* C7 (as claimed): on a graph with a cycle every topological_sort call
\* fails, also a repeated call on the unmodified graph after a call that
\* already failed.
C7_RepeatedSortFails ==
    [][(dagResult.kind = "error" /\ TopologicalSort)
          => dagResult'.kind = "error"]_vars

\* C8 (as claimed): a topological_sort that follows a mutation of the
\* graph is computed from the current graph.
C8_SortAfterMutationIsFresh ==
    [][(mutated /\ TopologicalSort)
          => dagResult' = SortResult(nodes, KahnOrder(nodes, dependencies))]_vars

-----------------------------------------------------------------------------
(* Properties of TransformationExecutor (checked under SpecExec, SpecSeq) *)

\* C9: execute never raises; with an unregistered type or a raising applier
\* it returns success = false, the input dataset and an error message, and
\* with a succeeding applier success = true and the applier's output.
C9_ExecuteResult ==
    exResult # <<>> =>
        LET r == exResult[1]
            c == exCall[1]
        IN /\ r.transformation = c.transformation
           /\ IF c.transformation.type \notin Registry \/ c.applier.raised
              THEN /\ ~r.success
                   /\ r.output_data = c.data
                   /\ r.error_message # NoError
              ELSE /\ r.success
                   /\ r.output_data = c.applier.output

C9_Witness ==
    /\ exResult # <<>>
    /\ exCall[1].transformation.type = "normalize"
    /\ exCall[1].applier.raised
    /\ exCall[1].data = 1
    /\ ~exResult[1].success
    /\ exResult[1].output_data = 1

\* C10: execute_sequence runs the transformations in list order, each on
\* the output of the one before (the first on data), stops at the first
\* failure and returns the results so far: every result but possibly the
\* last succeeded, and nothing after the first failure is executed.
C10_SequenceStopsAtFirstFailure ==
    xpc = "seqdone" =>
        /\ Len(seqResults) <= Len(seqInput)
        /\ Len(seqCalls) = Len(seqResults)
        /\ \A i \in 1..Len(seqResults) :
              /\ seqCalls[i].transformation = seqInput[i]
              /\ seqResults[i].transformation = seqInput[i]
              /\ seqCalls[i].data =
                    IF i = 1 THEN seqData ELSE seqResults[i - 1].output_data
              /\ i < Len(seqResults) => seqResults[i].success
        /\ Len(seqResults) < Len(seqInput) => ~Last(seqResults).success

C10_Witness ==
    /\ xpc = "seqdone"
    /\ Len(seqInput) = 2
    /\ Len(seqResults) = 1
    /\ ~seqResults[1].success
    /\ seqInput[2].type = "normalize"

\* C11: reverse on a drop_duplicates or remove_outliers transformation
\* raises the not-reversible error (NotImplementedError) and returns no
\* dataset, whether the reversible flag is set or not and whether the
\* transformation was never executed or was executed before (the applier
\* retained under its id is then its own).
RowRemoving == {"drop_duplicates", "remove_outliers"}

RetainedIsOwn(t) ==
    IF lastFit[t.id] = <<>> THEN TRUE
    ELSE lastFit[t.id][1].applier.type = t.type

C11_IrreversibleReverseFails ==
    revResult # <<>> =>
        LET t == revCall[1].transformation
            r == revResult[1]
        IN (t.type \in RowRemoving /\ RetainedIsOwn(t)) =>
              /\ r.error = "NotImplementedError"
              /\ r.output = NoData

C11_Witness ==
    /\ revResult # <<>>
    /\ revCall[1].transformation.type = "drop_duplicates"
    /\ revCall[1].transformation.reversible
    /\ lastFit[revCall[1].transformation.id] # <<>>
    /\ lastFit[revCall[1].transformation.id][1].applier.type = "drop_duplicates"
    /\ revResult[1].error = "NotImplementedError"

\* C12: once an execute for an id has succeeded, the executor retains the
\* applier of the most recent successful execute for that id, and a reverse
\* of a reversible transformation with that id is performed by that applier,
\* also when an execute for the id has failed in between.
C12_ReverseUsesRetainedApplier ==
    /\ \A i \in TIds :
          lastFit[i] # <<>> => instances[i] = <<lastFit[i][1].applier>>
    /\ revResult # <<>> =>
          LET t == revCall[1].transformation
          IN (t.reversible /\ lastFit[t.id] # <<>>) =>
                revResult[1].by = <<lastFit[t.id][1].applier>>

C12_Witness ==
    /\ revResult # <<>>
    /\ revCall[1].transformation.type = "normalize"
    /\ revCall[1].transformation.reversible
    /\ lastFit[revCall[1].transformation.id] # <<>>
    /\ lastFit[revCall[1].transformation.id][1].failedSince
    /\ lastFit[revCall[1].transformation.id][1].applier.type = "normalize"
    /\ revResult[1].by = <<[type |-> "normalize", fitted |-> 1]>>
    /\ revResult[1].error = NoError
    /\ revResult[1].output = 1

\* C13: the breaker is open exactly when the last failure_threshold (or
\* more) invocations of the wrapped operation all failed, with no
\* successful invocation among them.
C13_OpenIffThresholdConsecutiveFailures ==
    is_open <=> streak >= failure_threshold

\* C14: a call made while the breaker is open and less than
\* recovery_timeout after the last failure raises "Circuit breaker is open"
\* and does not invoke the wrapped operation.
CallWhileOpenInCooldown ==
    /\ cbLast # <<>>
    /\ cbLast[1].before.is_open
    /\ cbLast[1].before.last_failure_time # <<>>
    /\ Elapsed(cbLast[1].before, cbLast[1].at) < recovery_timeout

C14_OpenBreakerFastFails ==
    CallWhileOpenInCooldown =>
        /\ cbLast[1].outcome = "Circuit breaker is open"
        /\ ~cbLast[1].invoked
        /\ Breaker = cbLast[1].before

C14_Witness ==
    /\ CallWhileOpenInCooldown
    /\ ~cbLast[1].fails
    /\ cbLast[1].at > cbLast[1].before.last_failure_time[1]
    /\ cbLast[1].outcome = "Circuit breaker is open"

\* C15: the call let through once the cooldown has elapsed is a trial: when
\* it succeeds the breaker is closed afterwards, when it fails the breaker
\* is open afterwards.
TrialCall ==
    /\ cbLast # <<>>
    /\ cbLast[1].before.is_open
    /\ cbLast[1].invoked

C15_TrialDecides ==
    TrialCall => (IF cbLast[1].fails THEN is_open ELSE ~is_open)

\* C16: a call of the wrapper invokes the function at most max_retries + 1
\* times; every invocation but the last raised a caught exception; when the
\* last one returned, the wrapper returns its result; when all
\* max_retries + 1 invocations raised a caught exception, the wrapper
\* raises the exception of the last one.
C16_RetryAtMostNPlusOne ==
    /\ Len(invocations) <= retry_config.max_retries + 1
    /\ \A i \in 1..(Len(invocations) - 1) : invocations[i] = "raises caught"
    /\ rpc = "done" =>
          /\ invocations # <<>>
          /\ Last(invocations) = "returns" =>
                retResult = <<[kind |-> "returned", of |-> Len(invocations)]>>
          /\ Last(invocations) = "raises caught" =>
                /\ Len(invocations) = retry_config.max_retries + 1
                /\ retResult = <<[kind |-> "raised",
                                  of |-> retry_config.max_retries + 1]>>

C16_Witness ==
    /\ rpc = "done"
    /\ retry_config.max_retries = 2
    /\ invocations = <<"raises caught", "raises caught", "raises caught">>
    /\ retResult = <<[kind |-> "raised", of |-> 3]>>

\* C17: the wait before the k-th retry is
\* initial_delay * backoff_factor^(k-1), capped at max_delay.
RECURSIVE Pow(_, _)
Pow(b, e) == IF e = 0 THEN 1 ELSE b * Pow(b, e - 1)

Min(a, b) == IF a <= b THEN a ELSE b

C17_BackoffCappedAtMaxDelay ==
    \A k \in 1..Len(sleeps) :
       sleeps[k] = Min(retry_config.initial_delay
                          * Pow(retry_config.backoff_factor, k - 1),
                       retry_config.max_delay)

\* C18: under SKIP, handle_failure(step, error, state) sets state.error to
\* the error message and state.current_step to the step that follows the
\* failed one in the orchestrator's sequence PROFILING, GENERATION,
\* VALIDATION, RANKING, leaving current_step alone when the failed step is
\* the last one.
OrchestratorSequence == <<PROFILING, GENERATION, VALIDATION, RANKING>>

C18_SkipAdvancesToNextStep ==
    (frCall # <<>> /\ strategy = SKIP
       /\ frCall[1].step \in Range(OrchestratorSequence)) =>
        LET i == IndexOf(OrchestratorSequence, frCall[1].step)
        IN /\ frState.error = frCall[1].error
           /\ frState.current_step =
                 IF i < Len(OrchestratorSequence)
                 THEN OrchestratorSequence[i + 1]
                 ELSE frCall[1].state.current_step

\* C19: the list rank returns has one entry per input candidate; it is the
\* input reordered by score descending, candidates of equal score in input
\* order; entry i has rank i and the score of its candidate.
StablyOrdered(input, f) ==
    \A i, j \in 1..Len(input) :
       i < j =>
          \/ PolicyScore(input[f[i]]) > PolicyScore(input[f[j]])
          \/ /\ PolicyScore(input[f[i]]) = PolicyScore(input[f[j]])
             /\ f[i] < f[j]

C19_RankSortedStableContiguous ==
    (rankResult # <<>> /\ rankCall.has_policy) =>
        LET input == rankCall.candidates
            ranked == rankResult[1].ranked
        IN /\ rankResult[1].kind = "returned"
           /\ Len(ranked) = Len(input)
           /\ \A i \in 1..Len(ranked) : ranked[i].rank = i
           /\ \E f \in Permutations(1..Len(input)) :
                 /\ StablyOrdered(input, f)
                 /\ \A i \in 1..Len(input) :
                       /\ ranked[i].candidate = input[f[i]]
                       /\ ranked[i].composite_score = PolicyScore(input[f[i]])

C19_Witness ==
    /\ rankResult # <<>>
    /\ rankCall.has_policy
    /\ Len(rankCall.candidates) = 3
    /\ rankCall.candidates[1].transformation.id = 2
    /\ rankCall.candidates[2].transformation.id = 1
    /\ PolicyScore(rankCall.candidates[1]) = 0
    /\ PolicyScore(rankCall.candidates[2]) = 0
    /\ PolicyScore(rankCall.candidates[3]) = 1
    /\ rankResult[1].ranked[1].candidate = rankCall.candidates[3]
    /\ rankResult[1].ranked[2].candidate = rankCall.candidates[1]
    /\ rankResult[1].ranked[3].candidate = rankCall.candidates[2]

\* C20: in the ValidationResult of validate, passed is false exactly when
\* the issue list (integrity, leakage and schema issues together) has an
\* issue of severity error, and schema_compatible is false exactly when one
\* of the schema issues has severity error.
Severities(issues) == {issues[i].severity : i \in 1..Len(issues)}

C20_PassedIffNoErrorIssue ==
    valResult # <<>> =>
        LET r == valResult[1] IN
        /\ r.issues = valCall.integrity \o valCall.leakage \o valCall.schema
        /\ ~r.passed <=> "error" \in Severities(r.issues)
        /\ ~r.schema_compatible <=> "error" \in Severities(valCall.schema)

C20_Witness ==
    /\ valResult # <<>>
    /\ ~valResult[1].passed
    /\ valResult[1].schema_compatible
    /\ "warning" \in Severities(valCall.schema)
    /\ "error" \in Severities(valCall.leakage)
    /\ "error" \notin Severities(valCall.integrity)

\* C21: for a row-count check of an original of o > 0 rows against a
\* transformed dataset of t rows under tolerance T, the issue is the error
\* EXCESSIVE_ROW_LOSS exactly when (o - t)/o > T, the warning ROW_LOSS
\* exactly when 0 < (o - t)/o <= T, and nothing when t >= o; for o = 0 the
\* check returns nothing.
C21_RowLossAgainstTolerance ==
    rowCall # <<>> =>
        LET o == rowCall[1].original_count
            t == rowCall[1].transformed_count
            T == rowCall[1].tolerance
            lost == o - t
        IN  /\ o = 0 => rowResult = <<>>
            /\ o > 0 =>
                /\ (rowResult = <<Issue("error", "EXCESSIVE_ROW_LOSS")>>)
                       <=> (lost * T.den > T.num * o)
                /\ (rowResult = <<Issue("warning", "ROW_LOSS")>>)
                       <=> (lost > 0 /\ lost * T.den <= T.num * o)
                /\ t >= o => rowResult = <<>>
                /\ Len(rowResult) <= 1

\* a loss of exactly the tolerated share of the rows was reported as a warning
C21_Witness ==
    /\ rowCall # <<>>
    /\ rowCall[1].original_count > 0
    /\ rowCall[1].tolerance.num > 0
    /\ (rowCall[1].original_count - rowCall[1].transformed_count)
           * rowCall[1].tolerance.den
       = rowCall[1].tolerance.num * rowCall[1].original_count
    /\ rowResult = <<Issue("warning", "ROW_LOSS")>>

\* C22: every column named in the profile that the transformed dataset lacks
\* gets an error-severity issue from the schema check, so schema_compatible
\* is false whenever a profile column is missing.
C22_MissingProfileColumnIsSchemaError ==
    schCall # <<>> =>
        LET missing == schCall[1].profile \ schCall[1].transformed
            issues == schResult[2]
        IN  /\ \A c \in missing :
                   \E i \in 1..Len(issues) :
                       /\ issues[i].severity = "error"
                       /\ issues[i].column = c
            /\ missing # {} => schResult[1] = FALSE

\* C23: a candidate assembled in step 3 has quality_delta.composite_delta =
\* quality_after.overall - quality_before.overall, quality_delta.before =
\* quality_before, quality_delta.after = quality_after, and every component
\* of quality_delta.improvement equal to after minus before.
C23_DeltaIsAfterMinusBefore ==
    assembled # <<>> =>
        LET c == assembled[1]
            d == c.quality_delta
        IN  /\ d.composite_delta = c.quality_after.overall - c.quality_before.overall
            /\ d.before = c.quality_before
            /\ d.after = c.quality_after
            /\ \A m \in {"completeness", "consistency", "validity",
                         "uniqueness", "overall"} :
                   d.improvement[m] = c.quality_after[m] - c.quality_before[m]

\* a candidate whose overall score fell while its completeness rose
C23_Witness ==
    /\ assembled # <<>>
    /\ assembled[1].quality_after.overall < assembled[1].quality_before.overall
    /\ assembled[1].quality_delta.composite_delta < 0
    /\ assembled[1].quality_delta.improvement.completeness > 0

\* C24: load_state(n) returns a state equal, in current_step,
\* completed_steps, data_profile, candidates, ranked_transformations and
\* error, to the state most recently saved under n, whatever was saved
\* under other names; it returns None when nothing was saved under n or n
\* was cleared since.  (Files a failed write emptied are left aside.)
C24_LoadReturnsLastSaved ==
    (/\ smCall # <<>>
     /\ smCall[1].op = "load"
     /\ disk[smCall[1].name] # <<BrokenFile>>) =>
        LET saved == lastSaved[smCall[1].name]
        IN  IF saved = <<>>
            THEN smCall[1].raised = NoError /\ smResult = <<>>
            ELSE /\ smCall[1].raised = NoError
                 /\ Len(smResult) = 1
                 /\ smResult[1].current_step = saved[1].state.current_step
                 /\ smResult[1].completed_steps = saved[1].state.completed_steps
                 /\ smResult[1].data_profile = saved[1].state.data_profile
                 /\ smResult[1].candidates = saved[1].state.candidates
                 /\ smResult[1].ranked_transformations
                        = saved[1].state.ranked_transformations
                 /\ smResult[1].error = saved[1].state.error

\* C25: candidate generation is a function of the profile alone: any two
\* generate_candidates calls on the same profile return equal lists, ids
\* included.
C25_GenerationIsPure ==
    \A i, j \in 1..Len(genCalls) : genCalls[i] = genCalls[j]

\* C29: every transformation the generator produces carries the reversible
\* flag ReversibilityChecker.is_reversible gives it: true for normalize,
\* encode_categorical and cast_type, false for remove_outliers and
\* drop_duplicates, and for fill_missing true exactly when the strategy is
\* constant.
C29_FlagMatchesChecker ==
    \A k \in 1..Len(genCalls) :
        \A i \in 1..Len(genCalls[k]) :
            genCalls[k][i].reversible = IsReversible(genCalls[k][i])

\* C26: within one run the candidates are generated once, in step 2, and
\* the transformations step 3 executes, validates and scores are exactly
\* the ones step 2 generated, with the same ids.
C26_Step3ProcessesStep2Candidates ==
    pc = "loop" =>
        /\ Len(transformations) = Len(generated)
        /\ \A i \in 1..Len(transformations) :
               transformations[i].id = generated[i].id

\* C27: after the transformations of a list with pairwise distinct ids were
\* added and auto_build_dependencies ran on the list, every edge goes from
\* a transformation to one earlier in the list, and topological_sort
\* succeeds, whatever the target-column lists are.
C27_AutoBuiltGraphIsAcyclic ==
    /\ bldPc \in {"built", "sorted"} =>
           \A a \in Range(nodes) : \A b \in dependencies[a] : b < a
    /\ bldPc = "sorted" => dagResult.kind = "ok"

\* C28: a call the open breaker rejects leaves failure_count,
\* last_failure_time and is_open as they were, so the times at which a
\* later call would still be rejected are the same after it as before it:
\* the cooldown runs from the last failure of the wrapped operation.
RejectedCallStep ==
    /\ cbLast' # <<>>
    /\ ~cbLast'[1].invoked
    /\ cbLast'[1].at = now
    /\ cbLast'[1].before = Breaker

C28_RejectedCallLeavesBreaker ==
    [][RejectedCallStep =>
          /\ cbLast'[1].outcome = "Circuit breaker is open"
          /\ failure_count' = failure_count
          /\ last_failure_time' = last_failure_time
          /\ is_open' = is_open
          /\ \A t \in now..MaxTime :
                 Rejects([failure_count |-> failure_count',
                          last_failure_time |-> last_failure_time',
                          is_open |-> is_open'], recovery_timeout, t)
                 <=> Rejects(Breaker, recovery_timeout, t)]_vars

\* a failing function was kept from running in the last time unit of the
\* cooldown, which still ends when it did before the call
C28_Witness ==
    /\ cbLast # <<>>
    /\ ~cbLast[1].invoked
    /\ cbLast[1].fails
    /\ recovery_timeout >= 2
    /\ is_open
    /\ cbLast[1].at - last_failure_time[1] = recovery_timeout - 1
    /\ last_failure_time = cbLast[1].before.last_failure_time

\* C30: a checkpoint write that fails neither aborts nor alters the run:
\* whether or not the write succeeds, the step after a checkpoint is the
\* same and the state, the candidates, the pending exception and the result
\* are untouched, so the remaining steps and the returned success flag,
\* data, profile and ranked_transformations do not depend on which writes
\* failed.
CheckpointStep == Len(ckptLog') = Len(ckptLog) + 1

C30_CheckpointFailureDoesNotAlterRun ==
    [][CheckpointStep =>
          /\ pc' = AfterCheckpoint(pc, enable_ranking)
          /\ UNCHANGED <<enable_ranking, state, generated, transformations,
                         idx, candidates, outcomes, nextId, stepStates, exc,
                         reexec, result>>]_vars

\* a run whose four checkpoint writes all failed returned success with a
\* ranking and re-executed data
C30_Witness ==
    /\ RunReturned
    /\ result[1].success
    /\ Len(ckptLog) = 4
    /\ \A k \in 1..4 : ~ckptLog[k].written
    /\ result[1].ranked_transformations # <<>>
    /\ result[1].data # InputData
    /\ current_state = <<>>

====
